---------------------------- MODULE Spec2Model ----------------------------
(***************************************************************************)
(* Buscador de archivos USB (src/Buscador.py): the orchestrator            *)
(* BuscadorArchivos, its indexer threads, the content-search thread, the   *)
(* Qt event queue, and the removable volumes it polls.                     *)
(*                                                                         *)
(* Strings are sequences of one-character strings, so that strip(),        *)
(* lower(), startswith(), "in" and os.path.splitext() are computed, not    *)
(* assumed.  List positions are 0-based as in the Python code: position i  *)
(* of a Python list is element i+1 of the sequence.                        *)
(***************************************************************************)
EXTENDS Integers, Sequences, FiniteSets, TLC

VARIABLES
    \* ---- BuscadorArchivos fields (Buscador.py:108-124)
    unidad_seleccionada,    \* None or the drive letter of the selected root
    resultados,             \* list of file records currently displayed
    todos_los_archivos,     \* list of file records (shared with the workers)
    indice_nombres,         \* dict: lowercased stem -> list of positions
    indice_extensiones,     \* dict: lowercased extension -> list of positions
    unidades_previas,       \* unit list seen by the previous poll
    tipo_busqueda,          \* BUSQUEDA_NOMBRE / _EXTENSION / _CONTENIDO
    buscando_contenido,
    indexando,
    thread_indexacion_activo, \* 0 (None) or the id of the last indexer thread
    cancelar_indexacion,
    lock_indexacion,        \* 0 (free) or the id of the indexer thread holding it
    \* ---- widgets and timers
    botones,                \* unit buttons built by cargar_unidades
    search_input,           \* [text, enabled]
    btn_buscar,             \* enabled flag of the search button
    results_list,           \* what the list widget shows: [modo, texto]
    timer_autocompletar,    \* TRUE while the single-shot debounce timer runs
    diferidos,              \* pending QTimer.singleShot(50, mostrar_todos...)
    alerta,                 \* text of the open QMessageBox, <<>> if none
    \* ---- control
    ui,                     \* position and locals of the UI thread
    cola,                   \* queued signal deliveries to the UI thread (FIFO)
    hilos,                  \* indexer threads: id -> position and locals
    buscador,               \* the content-search thread: position and locals
    \* ---- environment
    montadas,               \* drive letters whose root path exists
    disco,                  \* drive letter -> directory tree of the volume
    \* ---- lectores.py
    llamada,                \* a call of the readers: its file and its result
    objeto,                 \* which object each shared field is bound to
    gestor                  \* a GestorHistorial and the last call made on it

vars == <<unidad_seleccionada, resultados, todos_los_archivos, indice_nombres,
          indice_extensiones, unidades_previas, tipo_busqueda,
          buscando_contenido, indexando, thread_indexacion_activo,
          cancelar_indexacion, lock_indexacion, botones, search_input,
          btn_buscar, results_list, timer_autocompletar, diferidos, alerta,
          ui, cola, hilos, buscador, montadas, disco, llamada,
          objeto, gestor>>

None == "None"

-----------------------------------------------------------------------------
(* Bounds of the model *)

\* indexer threads running plus signal deliveries still queued
MaxHilos == 2
\* QTimer.singleShot callbacks that may be pending at once
MaxDiferidos == 1
\* length of the query texts typed in the query specification
MaxTexto == 2
\* files in the root directory of volume D in the query specification
MaxArchivos == 2

-----------------------------------------------------------------------------
(* Python string operations *)

Mayusculas == <<"A","B","C","D","E","F","G","H","I","J","K","L","M","N","O","P","Q","R","S","T","U","V","W","X","Y","Z">>

Minusculas == <<"a","b","c","d","e","f","g","h","i","j","k","l","m","n","o","p","q","r","s","t","u","v","w","x","y","z">>

\* str.lower() on one character
LowerChar(c) ==
    IF \E i \in 1..26 : Mayusculas[i] = c
    THEN Minusculas[CHOOSE i \in 1..26 : Mayusculas[i] = c]
    ELSE c

\* str.lower()
Lower(s) == [i \in 1..Len(s) |-> LowerChar(s[i])]

EsBlanco(c) == c \in {" ", "\t", "\n"}

\* str.strip(): drop leading and trailing whitespace
Strip(s) ==
    LET noBlancos == {i \in 1..Len(s) : ~EsBlanco(s[i])}
    IN  IF noBlancos = {} THEN <<>>
        ELSE LET a == CHOOSE i \in noBlancos : \A j \in noBlancos : i <= j
                 b == CHOOSE i \in noBlancos : \A j \in noBlancos : j <= i
             IN  SubSeq(s, a, b)

\* s.startswith(c) for a one-character prefix
StartsWith(s, c) == Len(s) >= 1 /\ s[1] = c

\* "sub in s" on strings
Contiene(sub, s) ==
    \E k \in 0..(Len(s) - Len(sub)) : SubSeq(s, k + 1, k + Len(sub)) = sub

\* os.path.splitext on a bare file name: the extension starts at the last
\* dot, unless only dots precede it (".rc" has no extension)
SplitExt(p) ==
    LET puntos == {i \in 1..Len(p) : p[i] = "."}
    IN  IF puntos = {} THEN <<p, <<>>>>
        ELSE LET dotIndex == CHOOSE i \in puntos : \A j \in puntos : j <= i
             IN  IF \E j \in 1..(dotIndex - 1) : p[j] # "."
                 THEN <<SubSeq(p, 1, dotIndex - 1), SubSeq(p, dotIndex, Len(p))>>
                 ELSE <<p, <<>>>>

-----------------------------------------------------------------------------
(* The environment: removable volumes and their directory trees *)

\* drive letters the detection loop can report (A, B and C are skipped)
Unidades == {"D", "E"}

\* win32file.GetDriveType and win32api.GetVolumeInformation for each letter:
\* D is a removable drive labelled DATOS, E is a drive whose volume
\* information cannot be read
InfoVolumen(letra) ==
    IF letra = "D"
    THEN [tipo_unidad |-> 2, falla |-> FALSE, etiqueta |-> "DATOS"]
    ELSE [tipo_unidad |-> 3, falla |-> TRUE, etiqueta |-> ""]

\* The button text built for one unit.  [letra, sufijo] stands for the string
\* letra + ":/" when sufijo is empty and letra + ":/ " + sufijo otherwise.
TextoUnidad(letra) ==
    LET info == InfoVolumen(letra)
    IN  IF info.falla THEN [letra |-> letra, sufijo |-> ""]
        ELSE IF info.etiqueta # "" THEN [letra |-> letra, sufijo |-> info.etiqueta]
        ELSE [letra |-> letra,
              sufijo |-> IF info.tipo_unidad = 2 THEN "USB Removible" ELSE "Disco Externo"]

\* detectar_unidades_disponibles(): the units whose root exists and whose
\* drive type is 2 or 3, as {texto, ruta} records
detectar_unidades_disponibles ==
    {[texto |-> TextoUnidad(l), ruta |-> l] :
        l \in {m \in montadas : InfoVolumen(m).tipo_unidad \in {2, 3}}}

N_ReportPDF == <<"R","e","p","o","r","t",".","P","D","F">>
N_reporttxt == <<"r","e","p","o","r","t",".","t","x","t">>
N_imagejpg == <<"i","m","a","g","e",".","j","p","g">>
N_notas == <<"n","o","t","a","s">>
N_docs == <<"d","o","c","s">>
N_papelera == <<"$","R","E","C","Y","C","L","E",".","B","I","N">>
N_RP == <<"R",".","P">>
N_pr == <<"p",".","r">>
N_puntor == <<".","r">>
N_rpy == <<"r",".","p","y">>
N_Pr == <<"P","r">>

\* A directory tree: directory path (sequence of directory names, <<>> is the
\* volume root) -> the directory's sub-directories and files, in listing order
ArbolD ==
    (<<>> :> [dirs |-> <<N_papelera, N_docs>>, files |-> <<N_ReportPDF>>])
    @@ (<<N_papelera>> :> [dirs |-> <<>>, files |-> <<N_imagejpg>>])
    @@ (<<N_docs>> :> [dirs |-> <<>>, files |-> <<N_reporttxt>>])

ArbolE ==
    (<<>> :> [dirs |-> <<>>, files |-> <<N_notas>>])

DiscoFijo == [l \in Unidades |-> IF l = "D" THEN ArbolD ELSE ArbolE]

\* the trees of the query specification: short names, so that short query
\* texts can match them; the root files of D are drawn from NombresCortos,
\* a name being listed once in a directory
NombresCortos == {N_RP, N_pr, N_puntor}

ArbolConsultaD(files) ==
    (<<>> :> [dirs |-> <<N_papelera, N_docs>>, files |-> files])
    @@ (<<N_papelera>> :> [dirs |-> <<>>, files |-> <<N_imagejpg>>])
    @@ (<<N_docs>> :> [dirs |-> <<>>, files |-> <<N_rpy>>])

ArbolConsultaE ==
    (<<>> :> [dirs |-> <<>>, files |-> <<N_Pr>>])

DiscosConsulta ==
    {[l \in Unidades |-> IF l = "D" THEN ArbolConsultaD(f) ELSE ArbolConsultaE] :
        f \in {g \in UNION {[1..k -> NombresCortos] : k \in 0..MaxArchivos} :
                    \A i, j \in 1..Len(g) : i # j => g[i] # g[j]}}

\* the characters of the query texts typed in the query specification
Alfabeto == {" ", ".", "@", "r", "P"}

Textos == UNION {[1..k -> Alfabeto] : k \in 0..MaxTexto}

\* the query texts typed in the reading specification
TextosVivo == {<<>>, <<"r">>, <<".","p","d","f">>}

-----------------------------------------------------------------------------
(* The indexer: indexar_unidad_ultra_optimizado *)

DIRS_IGNORAR ==
    { <<"$","R","E","C","Y","C","L","E",".","B","I","N">>,
      <<"S","y","s","t","e","m"," ","V","o","l","u","m","e"," ","I","n","f","o","r","m","a","t","i","o","n">>,
      <<"$","R","e","c","y","c","l","e",".","B","i","n">>,
      <<"R","E","C","Y","C","L","E","R">>,
      <<"C","o","n","f","i","g",".","M","s","i">>,
      <<"R","e","c","o","v","e","r","y">>,
      <<"$","W","i","n","d","o","w","s",".","~","B","T">>,
      <<"W","i","n","d","o","w","s",".","o","l","d">>,
      <<"P","e","r","f","L","o","g","s">>,
      <<"h","i","b","e","r","f","i","l",".","s","y","s">>,
      <<"p","a","g","e","f","i","l","e",".","s","y","s">> }

\* defaultdict(list): a function whose domain is the set of keys present
DictVacio == <<>>

\* d[k].append(i) on a defaultdict(list)
DictAppend(d, k, i) ==
    IF k \in DOMAIN d THEN [d EXCEPT ![k] = Append(@, i)]
    ELSE [x \in (DOMAIN d) \cup {k} |-> IF x = k THEN <<i>> ELSE d[x]]

\* a filter that knows the list and not the "$" prefix
SoloLaLista(d) == d \notin DIRS_IGNORAR

NoIgnorado(d) == d \notin DIRS_IGNORAR /\ ~StartsWith(d, "$")

\* dirs[:] = [d for d in dirs if d not in DIRS_IGNORAR and not d.startswith('$')]
RECURSIVE FiltrarDirs(_)
FiltrarDirs(dirs) ==
    IF dirs = <<>> THEN <<>>
    ELSE IF NoIgnorado(Head(dirs)) THEN <<Head(dirs)>> \o FiltrarDirs(Tail(dirs))
    ELSE FiltrarDirs(Tail(dirs))

\* the record built for one file of directory dir of volume raiz
ArchivoDict(raiz, dir, nombre_archivo) ==
    [nombre    |-> nombre_archivo,
     ruta      |-> [unidad |-> raiz, dir |-> dir, nombre |-> nombre_archivo],
     extension |-> Lower(SplitExt(nombre_archivo)[2])]

\* the stem with its case kept
NombreConMayusculas(nombre_archivo) == SplitExt(nombre_archivo)[1]

\* key of a file in indice_nombres
NombreSinExt(nombre_archivo) == Lower(SplitExt(nombre_archivo)[1])

\* a per-file step that numbers the record after the files already published
ProcesarTrasLoPublicado(h, nombre_archivo) ==
    LET archivo_dict == ArchivoDict(h.raiz, h.dir, nombre_archivo)
        indice == Len(todos_los_archivos) + Len(h.archivos_temp)
    IN  [h EXCEPT
            !.archivos_temp = Append(@, archivo_dict),
            !.indices_nombres_temp =
                DictAppend(@, NombreSinExt(nombre_archivo), indice),
            !.indices_ext_temp = DictAppend(@, archivo_dict.extension, indice)]

\* body of the per-file loop: append the record and both index entries
ProcesarArchivo(h, nombre_archivo) ==
    LET archivo_dict == ArchivoDict(h.raiz, h.dir, nombre_archivo)
        indice == Len(h.archivos_temp)
    IN  [h EXCEPT
            !.archivos_temp = Append(@, archivo_dict),
            !.indices_nombres_temp =
                DictAppend(@, NombreSinExt(nombre_archivo), indice),
            !.indices_ext_temp = DictAppend(@, archivo_dict.extension, indice)]

\* no thread: never started, or its run() has returned
HiloLibre ==
    [pc |-> "libre", raiz |-> None, pila |-> <<>>, dir |-> <<>>, lista |-> <<>>,
     archivos_temp |-> <<>>, indices_nombres_temp |-> DictVacio,
     indices_ext_temp |-> DictVacio, avisado |-> FALSE]

\* threading.Thread(target=self.indexar_unidad_ultra_optimizado).start()
HiloNuevo == [HiloLibre EXCEPT !.pc = "inicio"]

\* Thread.is_alive()
Vivo(t) == hilos[t].pc # "libre"

Vivos == {t \in 1..MaxHilos : Vivo(t)}

\* cancelar_indexacion = True, as seen from the indexer threads: avisado
\* records, for each running thread, that it has been told to cancel
Avisar(hs) ==
    [t \in 1..MaxHilos |->
        IF hs[t].pc # "libre" THEN [hs[t] EXCEPT !.avisado = TRUE] ELSE hs[t]]

\* where the walk goes on: the next file of the directory being listed, the
\* next pending directory, or the end of the os.walk loop (line 445)
Siguiente(h) ==
    [h EXCEPT !.pc = IF h.lista # <<>> THEN "archivos"
                     ELSE IF h.pila # <<>> THEN "walk"
                     ELSE "final"]

\* Object identity: for each shared field, whether the step just taken left
\* it bound to the object it was bound to ("mismo": the field was not
\* touched, or its object was changed in place) or bound it to another
\* object ("otro": an assignment of a new list or dict).
Intactos == [archivos |-> "mismo", nombres |-> "mismo", extensiones |-> "mismo"]

\* lines 384-390: the locals, and the first look at the selection: run()
\* returns at once when nothing is selected
HiloInicio(t) ==
    /\ hilos[t].pc = "inicio"
    /\ hilos' = [hilos EXCEPT ![t] =
                    IF unidad_seleccionada = None THEN HiloLibre
                    ELSE [@ EXCEPT !.pc = "abrir"]]
    /\ objeto' = Intactos
    /\ UNCHANGED <<unidad_seleccionada, resultados, todos_los_archivos,
                   indice_nombres, indice_extensiones, unidades_previas,
                   tipo_busqueda, buscando_contenido, indexando,
                   thread_indexacion_activo, cancelar_indexacion,
                   lock_indexacion, botones, search_input, btn_buscar,
                   results_list, timer_autocompletar, diferidos, alerta, ui,
                   cola, buscador, montadas, disco, llamada, gestor>>

\* os.walk(self.unidad_seleccionada) raises TypeError when the selection has
\* been dropped since the look of line 389
WalkLanza == unidad_seleccionada = None

\* line 402: the selection is read again and given to os.walk as the root.
\* An exception here is caught at line 455: it is printed, the thread sets
\* self.indexando = False (line 457) and ends.
HiloAbrir(t) ==
    /\ hilos[t].pc = "abrir"
    /\ IF WalkLanza
       THEN /\ hilos' = [hilos EXCEPT ![t] = HiloLibre]
            /\ indexando' = FALSE
       ELSE /\ hilos' = [hilos EXCEPT ![t] =
                            [@ EXCEPT !.pc = "walk",
                                      !.raiz = unidad_seleccionada,
                                      !.pila = << <<>> >>]]
            /\ UNCHANGED indexando
    /\ objeto' = Intactos
    /\ UNCHANGED <<unidad_seleccionada, resultados, todos_los_archivos,
                   indice_nombres, indice_extensiones, unidades_previas,
                   tipo_busqueda, buscando_contenido,
                   thread_indexacion_activo, cancelar_indexacion,
                   lock_indexacion, botones, search_input, btn_buscar,
                   results_list, timer_autocompletar, diferidos, alerta, ui,
                   cola, buscador, montadas, disco, llamada, gestor>>

\* One iteration of "for root, dirs, files in os.walk(...)" up to the file
\* loop (lines 402-409).  os.walk lists the next pending directory; a
\* directory that cannot be listed (volume gone) is skipped silently, without
\* yielding.  The sub-directories kept by the filter are walked next, before
\* the directories already pending.
HiloWalk(t) ==
    LET h == hilos[t]
        top == Head(h.pila)
    IN  /\ h.pc = "walk"
        /\ hilos' = [hilos EXCEPT ![t] =
              IF h.raiz \notin montadas \/ top \notin DOMAIN disco[h.raiz]
              THEN Siguiente([h EXCEPT !.pila = Tail(h.pila)])
              ELSE IF cancelar_indexacion THEN HiloLibre
              ELSE LET d == disco[h.raiz][top]
                       dirs == FiltrarDirs(d.dirs)
                   IN  Siguiente([h EXCEPT
                          !.dir = top,
                          !.lista = d.files,
                          !.pila = [i \in 1..Len(dirs) |-> Append(top, dirs[i])]
                                   \o Tail(h.pila)])]
    /\ objeto' = Intactos
    /\ UNCHANGED <<unidad_seleccionada, resultados, todos_los_archivos,
                   indice_nombres, indice_extensiones, unidades_previas,
                   tipo_busqueda, buscando_contenido, indexando,
                   thread_indexacion_activo, cancelar_indexacion,
                   lock_indexacion, botones, search_input, btn_buscar,
                   results_list, timer_autocompletar, diferidos, alerta, ui,
                   cola, buscador, montadas, disco, llamada, gestor>>

\* One iteration of "for nombre_archivo in files" (lines 411-443).  The
\* progress signal needs UPDATE_INTERVAL files and only rewrites a list row.
HiloArchivo(t) ==
    LET h == hilos[t]
    IN  /\ h.pc = "archivos"
        /\ hilos' = [hilos EXCEPT ![t] =
              IF cancelar_indexacion THEN HiloLibre
              ELSE Siguiente([ProcesarArchivo(h, Head(h.lista))
                                 EXCEPT !.lista = Tail(h.lista)])]
    /\ objeto' = Intactos
    /\ UNCHANGED <<unidad_seleccionada, resultados, todos_los_archivos,
                   indice_nombres, indice_extensiones, unidades_previas,
                   tipo_busqueda, buscando_contenido, indexando,
                   thread_indexacion_activo, cancelar_indexacion,
                   lock_indexacion, botones, search_input, btn_buscar,
                   results_list, timer_autocompletar, diferidos, alerta, ui,
                   cola, buscador, montadas, disco, llamada, gestor>>

\* line 446: the last look at the cancellation flag
HiloFinal(t) ==
    /\ hilos[t].pc = "final"
    /\ hilos' = [hilos EXCEPT ![t] =
                    IF ~cancelar_indexacion THEN [@ EXCEPT !.pc = "pub1"]
                    ELSE HiloLibre]
    /\ objeto' = Intactos
    /\ UNCHANGED <<unidad_seleccionada, resultados, todos_los_archivos,
                   indice_nombres, indice_extensiones, unidades_previas,
                   tipo_busqueda, buscando_contenido, indexando,
                   thread_indexacion_activo, cancelar_indexacion,
                   lock_indexacion, botones, search_input, btn_buscar,
                   results_list, timer_autocompletar, diferidos, alerta, ui,
                   cola, buscador, montadas, disco, llamada, gestor>>

\* lines 447-448: take the lock, self.todos_los_archivos = archivos_temp
HiloPublicarArchivos(t) ==
    /\ hilos[t].pc = "pub1"
    /\ lock_indexacion = 0
    /\ lock_indexacion' = t
    /\ todos_los_archivos' = hilos[t].archivos_temp
    /\ objeto' = [Intactos EXCEPT !.archivos = "otro"]
    /\ hilos' = [hilos EXCEPT ![t].pc = "pub2"]
    /\ UNCHANGED <<unidad_seleccionada, resultados, indice_nombres,
                   indice_extensiones, unidades_previas, tipo_busqueda,
                   buscando_contenido, indexando, thread_indexacion_activo,
                   cancelar_indexacion, botones, search_input, btn_buscar,
                   results_list, timer_autocompletar, diferidos, alerta, ui,
                   cola, buscador, montadas, disco, llamada, gestor>>

\* line 449: self.indice_nombres = indices_nombres_temp
HiloPublicarNombres(t) ==
    /\ hilos[t].pc = "pub2"
    /\ indice_nombres' = hilos[t].indices_nombres_temp
    /\ objeto' = [Intactos EXCEPT !.nombres = "otro"]
    /\ hilos' = [hilos EXCEPT ![t].pc = "pub3"]
    /\ UNCHANGED <<unidad_seleccionada, resultados, todos_los_archivos,
                   indice_extensiones, unidades_previas, tipo_busqueda,
                   buscando_contenido, indexando, thread_indexacion_activo,
                   cancelar_indexacion, lock_indexacion, botones,
                   search_input, btn_buscar, results_list,
                   timer_autocompletar, diferidos, alerta, ui, cola, buscador,
                   montadas, disco, llamada, gestor>>

\* line 450: self.indice_extensiones = indices_ext_temp, and the lock is
\* released
HiloPublicarExtensiones(t) ==
    /\ hilos[t].pc = "pub3"
    /\ indice_extensiones' = hilos[t].indices_ext_temp
    /\ objeto' = [Intactos EXCEPT !.extensiones = "otro"]
    /\ lock_indexacion' = 0
    /\ hilos' = [hilos EXCEPT ![t].pc = "emitir"]
    /\ UNCHANGED <<unidad_seleccionada, resultados, todos_los_archivos,
                   indice_nombres, unidades_previas, tipo_busqueda,
                   buscando_contenido, indexando, thread_indexacion_activo,
                   cancelar_indexacion, botones, search_input, btn_buscar,
                   results_list, timer_autocompletar, diferidos, alerta, ui,
                   cola, buscador, montadas, disco, llamada, gestor>>

\* a queued signal delivery
Senal(nombre, total, coincidencias, texto) ==
    [senal |-> nombre, total |-> total, coincidencias |-> coincidencias,
     texto |-> texto]

\* line 453: indexacion_completa.emit(len(self.todos_los_archivos)), queued
\* for the UI thread; the thread ends
HiloEmitir(t) ==
    /\ hilos[t].pc = "emitir"
    /\ cola' = Append(cola, Senal("indexacion_completa",
                                  Len(todos_los_archivos), <<>>, <<>>))
    /\ hilos' = [hilos EXCEPT ![t] = HiloLibre]
    /\ objeto' = Intactos
    /\ UNCHANGED <<unidad_seleccionada, resultados, todos_los_archivos,
                   indice_nombres, indice_extensiones, unidades_previas,
                   tipo_busqueda, buscando_contenido, indexando,
                   thread_indexacion_activo, cancelar_indexacion,
                   lock_indexacion, botones, search_input, btn_buscar,
                   results_list, timer_autocompletar, diferidos, alerta, ui,
                   buscador, montadas, disco, llamada, gestor>>

Indexador(t) ==
    \/ HiloInicio(t)
    \/ HiloAbrir(t)
    \/ HiloWalk(t)
    \/ HiloArchivo(t)
    \/ HiloFinal(t)
    \/ HiloPublicarArchivos(t)
    \/ HiloPublicarNombres(t)
    \/ HiloPublicarExtensiones(t)
    \/ HiloEmitir(t)


-----------------------------------------------------------------------------
(* The UI thread: one handler runs at a time *)

BUSQUEDA_NOMBRE == 1
BUSQUEDA_EXTENSION == 2
BUSQUEDA_CONTENIDO == 3

\* the argument of seleccionar_unidad when no call is in progress
SinBoton == [texto |-> [letra |-> "", sufijo |-> ""], ruta |-> None]

UiIdle ==
    [pc |-> "idle", unidad |-> SinBoton, indices |-> <<>>, texto |-> <<>>]

\* what the list widget is showing
Lista(modo, texto) == [modo |-> modo, texto |-> texto]

\* a list view that keeps the first record only
MostrarElPrimero ==
    /\ resultados' = SubSeq(todos_los_archivos, 1, 1)
    /\ results_list' = IF todos_los_archivos = <<>>
                       THEN Lista("no_hay_archivos", <<>>)
                       ELSE Lista("todos", <<>>)

\* mostrar_todos_los_archivos (lines 482-515): every record is shown, since
\* MAX_ARCHIVOS_MOSTRADOS exceeds any list
MostrarTodos ==
    /\ resultados' = todos_los_archivos
    /\ results_list' = IF todos_los_archivos = <<>>
                       THEN Lista("no_hay_archivos", <<>>)
                       ELSE Lista("todos", <<>>)

\* indexacion_completa deliveries waiting in the queue
Completas(q) == Cardinality({i \in 1..Len(q) : q[i].senal = "indexacion_completa"})

\* seleccionar_unidad, lines 340-350: a click on a unit button.  A running
\* indexing is told to cancel and its thread is joined for at most 2 s.
SelInicio(u) ==
    /\ ui.pc = "idle"
    /\ alerta = ""
    /\ u \in botones
    /\ Cardinality(Vivos) + Completas(cola) < MaxHilos
    /\ IF indexando
       THEN /\ cancelar_indexacion' = TRUE
            /\ hilos' = Avisar(hilos)
            /\ IF thread_indexacion_activo # 0 /\ Vivo(thread_indexacion_activo)
               THEN /\ ui' = [UiIdle EXCEPT !.pc = "sel_join", !.unidad = u]
                    /\ indexando' = indexando
               ELSE /\ ui' = [UiIdle EXCEPT !.pc = "sel_lock", !.unidad = u]
                    /\ indexando' = FALSE
       ELSE /\ ui' = [UiIdle EXCEPT !.pc = "sel_lock", !.unidad = u]
            /\ UNCHANGED <<cancelar_indexacion, hilos, indexando>>
    /\ objeto' = Intactos
    /\ UNCHANGED <<unidad_seleccionada, resultados, todos_los_archivos,
                   indice_nombres, indice_extensiones, unidades_previas,
                   tipo_busqueda, buscando_contenido,
                   thread_indexacion_activo, lock_indexacion, botones,
                   search_input, btn_buscar, results_list,
                   timer_autocompletar, diferidos, alerta, cola, buscador,
                   montadas, disco, llamada, gestor>>

\* line 348: join() returns because the thread has ended
SelJoinTermina ==
    /\ ui.pc = "sel_join"
    /\ ~Vivo(thread_indexacion_activo)
    /\ indexando' = FALSE
    /\ ui' = [ui EXCEPT !.pc = "sel_lock"]
    /\ objeto' = Intactos
    /\ UNCHANGED <<unidad_seleccionada, resultados, todos_los_archivos,
                   indice_nombres, indice_extensiones, unidades_previas,
                   tipo_busqueda, buscando_contenido,
                   thread_indexacion_activo, cancelar_indexacion,
                   lock_indexacion, botones, search_input, btn_buscar,
                   results_list, timer_autocompletar, diferidos, alerta, cola,
                   hilos, buscador, montadas, disco, llamada, gestor>>

\* line 348: join(timeout=2.0) returns with the thread still running
SelJoinTimeout ==
    /\ ui.pc = "sel_join"
    /\ Vivo(thread_indexacion_activo)
    /\ indexando' = FALSE
    /\ ui' = [ui EXCEPT !.pc = "sel_lock"]
    /\ objeto' = Intactos
    /\ UNCHANGED <<unidad_seleccionada, resultados, todos_los_archivos,
                   indice_nombres, indice_extensiones, unidades_previas,
                   tipo_busqueda, buscando_contenido,
                   thread_indexacion_activo, cancelar_indexacion,
                   lock_indexacion, botones, search_input, btn_buscar,
                   results_list, timer_autocompletar, diferidos, alerta, cola,
                   hilos, buscador, montadas, disco, llamada, gestor>>

\* lines 352-357: under the lock the list is replaced by a new empty one, the
\* two dicts are emptied with clear() and stay the objects they were, and the
\* flag is lowered
SelLimpiar ==
    /\ ui.pc = "sel_lock"
    /\ lock_indexacion = 0
    /\ todos_los_archivos' = <<>>
    /\ objeto' = [Intactos EXCEPT !.archivos = "otro"]
    /\ indice_nombres' = DictVacio
    /\ indice_extensiones' = DictVacio
    /\ resultados' = <<>>
    /\ cancelar_indexacion' = FALSE
    /\ ui' = [ui EXCEPT !.pc = "sel_start"]
    /\ UNCHANGED <<unidad_seleccionada, unidades_previas, tipo_busqueda,
                   buscando_contenido, indexando, thread_indexacion_activo,
                   lock_indexacion, botones, search_input, btn_buscar,
                   results_list, timer_autocompletar, diferidos, alerta, cola,
                   hilos, buscador, montadas, disco, llamada, gestor>>

\* lines 359-376, the lock released: the unit is recorded, the list shows
\* "Indexando archivos..." and a new indexer thread is started; the handler
\* returns
SelArrancar ==
    /\ ui.pc = "sel_start"
    /\ unidad_seleccionada' = ui.unidad.ruta
    /\ indexando' = TRUE
    /\ results_list' = Lista("indexando", <<>>)
    /\ LET t == CHOOSE x \in 1..MaxHilos :
                   ~Vivo(x) /\ \A y \in 1..MaxHilos : ~Vivo(y) => x <= y
       IN  /\ hilos' = [hilos EXCEPT ![t] = HiloNuevo]
           /\ thread_indexacion_activo' = t
    /\ ui' = UiIdle
    /\ objeto' = Intactos
    /\ UNCHANGED <<resultados, todos_los_archivos, indice_nombres,
                   indice_extensiones, unidades_previas, tipo_busqueda,
                   buscando_contenido, cancelar_indexacion, lock_indexacion,
                   botones, search_input, btn_buscar, timer_autocompletar,
                   diferidos, alerta, cola, buscador, montadas, disco,
                   llamada, gestor>>

\* self.unidad_seleccionada[0] + ":/"
LetraSeleccionada == [letra |-> unidad_seleccionada, sufijo |-> ""]

\* verificar_cambios_usb (lines 308-335), on every tick of timer_usb; when
\* the selected volume is gone the list is replaced by a new empty one and
\* the two dicts are emptied with clear()
verificar_cambios_usb ==
    /\ ui.pc = "idle"
    /\ LET actuales == detectar_unidades_disponibles
           letras_actuales == {u.texto : u \in actuales}
           letras_previas == {u.texto : u \in unidades_previas}
       IN  /\ IF letras_actuales # letras_previas
              THEN /\ IF unidad_seleccionada # None
                         /\ LetraSeleccionada \notin letras_actuales
                      THEN /\ cancelar_indexacion' = TRUE
                           /\ hilos' = Avisar(hilos)
                           /\ unidad_seleccionada' = None
                           /\ resultados' = <<>>
                           /\ todos_los_archivos' = <<>>
                           /\ objeto' = [Intactos EXCEPT
                                             !.archivos = "otro"]
                           /\ indice_nombres' = DictVacio
                           /\ indice_extensiones' = DictVacio
                           /\ indexando' = FALSE
                           /\ results_list' = Lista("inicial", <<>>)
                      ELSE /\ UNCHANGED <<cancelar_indexacion, hilos,
                                          unidad_seleccionada, resultados,
                                          todos_los_archivos, indice_nombres,
                                          indice_extensiones, indexando,
                                          results_list>>
                           /\ objeto' = Intactos
                   /\ botones' = actuales
              ELSE /\ UNCHANGED <<cancelar_indexacion, hilos,
                                  unidad_seleccionada, resultados,
                                  todos_los_archivos, indice_nombres,
                                  indice_extensiones, indexando, results_list,
                                  botones>>
                   /\ objeto' = Intactos
           /\ unidades_previas' = actuales
    /\ UNCHANGED <<tipo_busqueda, buscando_contenido,
                   thread_indexacion_activo, lock_indexacion, search_input,
                   btn_buscar, timer_autocompletar, diferidos, alerta, ui,
                   cola, buscador, montadas, disco, llamada, gestor>>

\* _on_indexacion_completa (lines 459-470), run by the UI thread when the
\* queued signal is delivered
on_indexacion_completa ==
    /\ ui.pc = "idle"
    /\ cola # <<>>
    /\ Head(cola).senal = "indexacion_completa"
    /\ cola' = Tail(cola)
    /\ indexando' = FALSE
    /\ cancelar_indexacion' = FALSE
    /\ MostrarTodos
    /\ objeto' = Intactos
    /\ UNCHANGED <<unidad_seleccionada, todos_los_archivos, indice_nombres,
                   indice_extensiones, unidades_previas, tipo_busqueda,
                   buscando_contenido, thread_indexacion_activo,
                   lock_indexacion, botones, search_input, btn_buscar,
                   timer_autocompletar, diferidos, alerta, ui, hilos,
                   buscador, montadas, disco, llamada, gestor>>

-----------------------------------------------------------------------------
(* Live search: classification, debounce, name and extension look-ups *)

\* result ceiling of _buscar_por_nombre_indexado (line 564)
MAX_COINCIDENCIAS == 50000

\* a classification that looks at the first character as typed
detectar_sin_strip(texto) ==
    IF texto = <<>> THEN BUSQUEDA_NOMBRE
    ELSE IF StartsWith(texto, "@") THEN BUSQUEDA_CONTENIDO
    ELSE IF StartsWith(texto, ".") THEN BUSQUEDA_EXTENSION
    ELSE BUSQUEDA_NOMBRE

\* _detectar_tipo_busqueda (lines 248-262)
detectar_tipo_busqueda(texto) ==
    LET texto_limpio == Strip(texto)
    IN  IF texto_limpio = <<>> THEN BUSQUEDA_NOMBRE
        ELSE IF StartsWith(texto_limpio, "@") THEN BUSQUEDA_CONTENIDO
        ELSE IF StartsWith(texto_limpio, ".") THEN BUSQUEDA_EXTENSION
        ELSE BUSQUEDA_NOMBRE

\* a handler that starts the timer for every text that is not blank
on_texto_siempre_arma(t) ==
    /\ ui.pc = "idle"
    /\ alerta = ""
    /\ search_input.enabled
    /\ t # search_input.text
    /\ search_input' = [search_input EXCEPT !.text = t]
    /\ IF buscando_contenido \/ indexando
       THEN UNCHANGED <<tipo_busqueda, timer_autocompletar, diferidos>>
       ELSE /\ tipo_busqueda' = detectar_tipo_busqueda(t)
            /\ IF Strip(t) = <<>>
               THEN /\ timer_autocompletar' = FALSE
                    /\ IF unidad_seleccionada # None /\ todos_los_archivos # <<>>
                       THEN /\ diferidos < MaxDiferidos
                            /\ diferidos' = diferidos + 1
                       ELSE UNCHANGED diferidos
               ELSE /\ timer_autocompletar' = TRUE
                    /\ UNCHANGED diferidos
    /\ objeto' = Intactos
    /\ UNCHANGED <<unidad_seleccionada, resultados, todos_los_archivos,
                   indice_nombres, indice_extensiones, unidades_previas,
                   buscando_contenido, indexando, thread_indexacion_activo,
                   cancelar_indexacion, lock_indexacion, botones, btn_buscar,
                   results_list, alerta, ui, cola, hilos, buscador, montadas,
                   disco, llamada, gestor>>

\* on_texto_cambiado (lines 212-246): the user changes the text of the input.
\* The history only feeds the completer and is left out.
on_texto_cambiado(t) ==
    /\ ui.pc = "idle"
    /\ alerta = ""
    /\ search_input.enabled
    /\ t # search_input.text
    /\ search_input' = [search_input EXCEPT !.text = t]
    /\ IF buscando_contenido \/ indexando
       THEN UNCHANGED <<tipo_busqueda, timer_autocompletar, diferidos>>
       ELSE /\ tipo_busqueda' = detectar_tipo_busqueda(t)
            /\ IF Strip(t) = <<>>
               THEN /\ timer_autocompletar' = FALSE
                    /\ IF unidad_seleccionada # None /\ todos_los_archivos # <<>>
                       THEN /\ diferidos < MaxDiferidos
                            /\ diferidos' = diferidos + 1
                       ELSE UNCHANGED diferidos
               ELSE /\ timer_autocompletar' =
                          IF detectar_tipo_busqueda(t) # BUSQUEDA_CONTENIDO
                          THEN TRUE ELSE timer_autocompletar
                    /\ UNCHANGED diferidos
    /\ objeto' = Intactos
    /\ UNCHANGED <<unidad_seleccionada, resultados, todos_los_archivos,
                   indice_nombres, indice_extensiones, unidades_previas,
                   buscando_contenido, indexando, thread_indexacion_activo,
                   cancelar_indexacion, lock_indexacion, botones, btn_buscar,
                   results_list, alerta, ui, cola, hilos, buscador, montadas,
                   disco, llamada, gestor>>

\* QTimer.singleShot(50, self.mostrar_todos_los_archivos) fires (line 237)
diferido_dispara ==
    /\ ui.pc = "idle"
    /\ diferidos > 0
    /\ diferidos' = diferidos - 1
    /\ MostrarTodos
    /\ objeto' = Intactos
    /\ UNCHANGED <<unidad_seleccionada, todos_los_archivos, indice_nombres,
                   indice_extensiones, unidades_previas, tipo_busqueda,
                   buscando_contenido, indexando, thread_indexacion_activo,
                   cancelar_indexacion, lock_indexacion, botones,
                   search_input, btn_buscar, timer_autocompletar, alerta, ui,
                   cola, hilos, buscador, montadas, disco, llamada, gestor>>

\* sorted(S) for a set of integers
RECURSIVE Sorted(_)
Sorted(S) ==
    IF S = {} THEN <<>>
    ELSE LET m == CHOOSE x \in S : \A y \in S : x <= y
         IN  <<m>> \o Sorted(S \ {m})

Rango(s) == {s[i] : i \in 1..Len(s)}

\* a look-up of the key equal to texto
IndicesPorNombreIgual(texto) ==
    IF texto \in DOMAIN indice_nombres THEN Sorted(Rango(indice_nombres[texto]))
    ELSE <<>>

\* _buscar_por_nombre_indexado, lines 552-561: the positions under every key
\* of indice_nombres that contains texto, in ascending order
IndicesPorNombre(texto) ==
    Sorted(UNION {Rango(indice_nombres[k]) :
                    k \in {n \in DOMAIN indice_nombres : Contiene(texto, n)}})

\* _buscar_por_nombre_indexado, lines 561-567: the records at the positions
\* that exist, until the ceiling is reached
RECURSIVE CoincidenciasNombre(_, _, _)
CoincidenciasNombre(indices, archivos, coincidencias) ==
    IF indices = <<>> THEN coincidencias
    ELSE IF Head(indices) < Len(archivos)
    THEN LET nuevas == Append(coincidencias, archivos[Head(indices) + 1])
         IN  IF Len(nuevas) >= MAX_COINCIDENCIAS THEN nuevas
             ELSE CoincidenciasNombre(Tail(indices), archivos, nuevas)
    ELSE CoincidenciasNombre(Tail(indices), archivos, coincidencias)

\* a look-up of the key exactly as typed
IndicesPorExtensionSinPunto(texto) ==
    IF texto \in DOMAIN indice_extensiones THEN indice_extensiones[texto]
    ELSE <<>>

\* _buscar_por_extension_indexado, lines 575-579: the leading dot is added
\* when missing, then the key is looked up
IndicesPorExtension(texto) ==
    LET clave == IF ~StartsWith(texto, ".") THEN <<".">> \o texto ELSE texto
    IN  IF clave \in DOMAIN indice_extensiones THEN indice_extensiones[clave]
        ELSE <<>>

\* _buscar_por_extension_indexado, lines 581-586
RECURSIVE CoincidenciasExtension(_, _)
CoincidenciasExtension(indices, archivos) ==
    IF indices = <<>> THEN <<>>
    ELSE IF Head(indices) < Len(archivos)
    THEN <<archivos[Head(indices) + 1]>>
         \o CoincidenciasExtension(Tail(indices), archivos)
    ELSE CoincidenciasExtension(Tail(indices), archivos)

\* a content-search thread that is not running
BuscadorLibre ==
    [pc |-> "libre", texto |-> <<>>, lista |-> <<>>, coincidencias |-> <<>>]

\* a submission that starts the scan and leaves buscando_contenido as it was
buscar_sin_bandera(texto) ==
    LET texto_busqueda ==
            IF StartsWith(texto, "@") THEN Strip(Tail(texto)) ELSE Strip(texto)
    IN  IF texto_busqueda = <<>> \/ unidad_seleccionada = None
           \/ todos_los_archivos = <<>> \/ buscando_contenido
        THEN UNCHANGED <<alerta, buscando_contenido, search_input, btn_buscar,
                         results_list, buscador>>
        ELSE /\ results_list' = Lista("buscando", <<>>)
             /\ buscador' = [BuscadorLibre EXCEPT !.pc = "inicio",
                                                  !.texto = texto_busqueda]
             /\ UNCHANGED <<alerta, buscando_contenido, search_input,
                            btn_buscar>>

\* a submission that starts the scan whatever is left after the "@"
buscar_sin_validar(texto) ==
    LET texto_busqueda ==
            IF StartsWith(texto, "@") THEN Strip(Tail(texto)) ELSE Strip(texto)
    IN  IF unidad_seleccionada = None \/ todos_los_archivos = <<>>
           \/ buscando_contenido
        THEN UNCHANGED <<alerta, buscando_contenido, search_input, btn_buscar,
                         results_list, buscador>>
        ELSE /\ buscando_contenido' = TRUE
             /\ btn_buscar' = FALSE
             /\ search_input' = [search_input EXCEPT !.enabled = FALSE]
             /\ results_list' = Lista("buscando", <<>>)
             /\ buscador' = [BuscadorLibre EXCEPT !.pc = "inicio",
                                                  !.texto = texto_busqueda]
             /\ UNCHANGED alerta

\* _buscar_por_contenido_automatico (lines 591-635); texto is stripped
buscar_por_contenido_automatico(texto) ==
    LET texto_busqueda ==
            IF StartsWith(texto, "@") THEN Strip(Tail(texto)) ELSE Strip(texto)
    IN  IF texto_busqueda = <<>>
        THEN /\ alerta' = "Escribe algo despues del @"
             /\ UNCHANGED <<buscando_contenido, search_input, btn_buscar,
                            results_list, buscador>>
        ELSE IF unidad_seleccionada = None
        THEN /\ alerta' = "Selecciona una unidad USB primero"
             /\ UNCHANGED <<buscando_contenido, search_input, btn_buscar,
                            results_list, buscador>>
        ELSE IF todos_los_archivos = <<>>
        THEN /\ alerta' = "No hay archivos indexados"
             /\ UNCHANGED <<buscando_contenido, search_input, btn_buscar,
                            results_list, buscador>>
        ELSE IF buscando_contenido
        THEN UNCHANGED <<alerta, buscando_contenido, search_input, btn_buscar,
                         results_list, buscador>>
        ELSE /\ buscando_contenido' = TRUE
             /\ btn_buscar' = FALSE
             /\ search_input' = [search_input EXCEPT !.enabled = FALSE]
             /\ results_list' = Lista("buscando", <<>>)
             /\ buscador' = [BuscadorLibre EXCEPT !.pc = "inicio",
                                                  !.texto = texto_busqueda]
             /\ UNCHANGED alerta

\* _ejecutar_busqueda_diferida (lines 518-547).  The index is read here; the
\* file list is read by the second half of the look-up (leer_nombre,
\* leer_extension below).
ejecutar_busqueda_diferida ==
    LET texto == Strip(search_input.text)
        texto_lower == Lower(texto)
    IN  IF buscando_contenido \/ indexando \/ unidad_seleccionada = None
        THEN UNCHANGED <<resultados, results_list, ui, alerta,
                         buscando_contenido, search_input, btn_buscar, buscador>>
        ELSE IF texto = <<>>
        THEN /\ MostrarTodos
             /\ UNCHANGED <<ui, alerta, buscando_contenido, search_input,
                            btn_buscar, buscador>>
        ELSE IF tipo_busqueda = BUSQUEDA_CONTENIDO
        THEN /\ buscar_por_contenido_automatico(texto)
             /\ UNCHANGED <<resultados, ui>>
        ELSE IF tipo_busqueda = BUSQUEDA_EXTENSION
        THEN /\ ui' = [UiIdle EXCEPT !.pc = "leer_extension",
                                     !.indices = IndicesPorExtension(texto_lower),
                                     !.texto = texto_lower]
             /\ UNCHANGED <<resultados, results_list, alerta,
                            buscando_contenido, search_input, btn_buscar,
                            buscador>>
        ELSE /\ ui' = [UiIdle EXCEPT !.pc = "leer_nombre",
                                     !.indices = IndicesPorNombre(texto_lower),
                                     !.texto = texto_lower]
             /\ UNCHANGED <<resultados, results_list, alerta,
                            buscando_contenido, search_input, btn_buscar,
                            buscador>>

\* _mostrar_resultados (lines 687-721)
MostrarResultados(coincidencias, texto) ==
    /\ resultados' = coincidencias
    /\ results_list' =
          Lista(IF tipo_busqueda = BUSQUEDA_EXTENSION THEN "extension"
                ELSE "nombre", texto)

\* second half of _buscar_por_nombre_indexado, then _mostrar_resultados
leer_nombre ==
    /\ ui.pc = "leer_nombre"
    /\ MostrarResultados(
          CoincidenciasNombre(ui.indices, todos_los_archivos, <<>>), ui.texto)
    /\ ui' = UiIdle
    /\ objeto' = Intactos
    /\ UNCHANGED <<unidad_seleccionada, todos_los_archivos, indice_nombres,
                   indice_extensiones, unidades_previas, tipo_busqueda,
                   buscando_contenido, indexando, thread_indexacion_activo,
                   cancelar_indexacion, lock_indexacion, botones,
                   search_input, btn_buscar, timer_autocompletar, diferidos,
                   alerta, cola, hilos, buscador, montadas, disco, llamada,
                   gestor>>

\* second half of _buscar_por_extension_indexado, then _mostrar_resultados
leer_extension ==
    /\ ui.pc = "leer_extension"
    /\ MostrarResultados(
          CoincidenciasExtension(ui.indices, todos_los_archivos), ui.texto)
    /\ ui' = UiIdle
    /\ objeto' = Intactos
    /\ UNCHANGED <<unidad_seleccionada, todos_los_archivos, indice_nombres,
                   indice_extensiones, unidades_previas, tipo_busqueda,
                   buscando_contenido, indexando, thread_indexacion_activo,
                   cancelar_indexacion, lock_indexacion, botones,
                   search_input, btn_buscar, timer_autocompletar, diferidos,
                   alerta, cola, hilos, buscador, montadas, disco, llamada,
                   gestor>>

\* timer_autocompletar fires (line 153)
timer_dispara ==
    /\ ui.pc = "idle"
    /\ timer_autocompletar
    /\ timer_autocompletar' = FALSE
    /\ ejecutar_busqueda_diferida
    /\ objeto' = Intactos
    /\ UNCHANGED <<unidad_seleccionada, todos_los_archivos, indice_nombres,
                   indice_extensiones, unidades_previas, tipo_busqueda,
                   indexando, thread_indexacion_activo, cancelar_indexacion,
                   lock_indexacion, botones, diferidos, cola, hilos, montadas,
                   disco, llamada, gestor>>

\* buscar_archivos (lines 763-780): the search button, or Enter in the input
buscar_archivos ==
    /\ ui.pc = "idle"
    /\ alerta = ""
    /\ btn_buscar \/ search_input.enabled
    /\ IF Strip(search_input.text) = <<>>
       THEN UNCHANGED <<resultados, results_list, ui, alerta,
                        buscando_contenido, search_input, btn_buscar, buscador>>
       ELSE IF unidad_seleccionada = None
       THEN /\ alerta' = "Selecciona una unidad USB"
            /\ UNCHANGED <<resultados, results_list, ui, buscando_contenido,
                           search_input, btn_buscar, buscador>>
       ELSE ejecutar_busqueda_diferida
    /\ objeto' = Intactos
    /\ UNCHANGED <<unidad_seleccionada, todos_los_archivos, indice_nombres,
                   indice_extensiones, unidades_previas, tipo_busqueda,
                   indexando, thread_indexacion_activo, cancelar_indexacion,
                   lock_indexacion, botones, timer_autocompletar, diferidos,
                   cola, hilos, montadas, disco, llamada, gestor>>

\* the user closes the message box opened by alerta() (lines 819-828)
cerrar_alerta ==
    /\ alerta # ""
    /\ alerta' = ""
    /\ objeto' = Intactos
    /\ UNCHANGED <<unidad_seleccionada, resultados, todos_los_archivos,
                   indice_nombres, indice_extensiones, unidades_previas,
                   tipo_busqueda, buscando_contenido, indexando,
                   thread_indexacion_activo, cancelar_indexacion,
                   lock_indexacion, botones, search_input, btn_buscar,
                   results_list, timer_autocompletar, diferidos, ui, cola,
                   hilos, buscador, montadas, disco, llamada, gestor>>

-----------------------------------------------------------------------------
(* Content search: the worker thread and its completion *)

\* LectorTexto.EXTENSIONES (lectores.py, lines 52-55)
EXTENSIONES_TEXTO ==
    { <<".","t","x","t">>, <<".","l","o","g">>, <<".","c","s","v">>,
      <<".","j","s","o","n">>, <<".","x","m","l">>, <<".","h","t","m","l">>,
      <<".","p","y">>, <<".","j","s">>, <<".","c","s","s">>, <<".","m","d">>,
      <<".","i","n","i">>, <<".","c","o","n","f">> }

\* LectorFactory._lectores (lines 189-196): the readers in registry order
lectores ==
    << "LectorTexto", "LectorPDF", "LectorDOCX", "LectorXLSX", "LectorPPTX",
       "LectorGenerico" >>

\* puede_leer of each reader class
puede_leer(lector, extension) ==
    IF lector = "LectorTexto" THEN Lower(extension) \in EXTENSIONES_TEXTO
    ELSE IF lector = "LectorPDF" THEN Lower(extension) = <<".","p","d","f">>
    ELSE IF lector = "LectorDOCX"
    THEN Lower(extension) = <<".","d","o","c","x">>
    ELSE IF lector = "LectorXLSX"
    THEN Lower(extension) \in {<<".","x","l","s","x">>, <<".","x","l","s">>}
    ELSE IF lector = "LectorPPTX"
    THEN Lower(extension) = <<".","p","p","t","x">>
    ELSE IF lector = "LectorEPUB"
    THEN Lower(extension) = <<".","e","p","u","b">>
    ELSE TRUE

\* a factory that tests the extension as written in the file name
crear_lector_literal(nombre) ==
    LET extension == SplitExt(nombre)[2]
        capaces == {i \in 1..Len(lectores) :
                        IF lectores[i] = "LectorTexto"
                        THEN extension \in EXTENSIONES_TEXTO
                        ELSE puede_leer(lectores[i], extension)}
    IN  IF capaces = {} THEN "LectorGenerico"
        ELSE lectores[CHOOSE i \in capaces : \A j \in capaces : i <= j]

\* LectorFactory.crear_lector (lines 199-222): the first reader of the
\* registry that accepts the lowercased extension
crear_lector(nombre) ==
    LET extension == Lower(SplitExt(nombre)[2])
        capaces == {i \in 1..Len(lectores) :
                        puede_leer(lectores[i], extension)}
    IN  IF capaces = {} THEN "LectorGenerico"
        ELSE lectores[CHOOSE i \in capaces : \A j \in capaces : i <= j]

\* hasattr(lector, 'EXTENSIONES'): only LectorTexto declares the attribute
\* (line 52)
tiene_EXTENSIONES(lector) == lector = "LectorTexto"

\* the extensions tried on a reader without EXTENSIONES (line 273)
EXTENSIONES_COMUNES ==
    << <<".","p","d","f">>, <<".","d","o","c","x">>, <<".","x","l","s","x">>,
       <<".","p","p","t","x">>, <<".","t","x","t">> >>

\* a registration that appends the reader after the last one
registrar_al_final(registro, lector, posicion) ==
    Append(registro, lector)

\* LectorFactory.registrar_lector (lines 224-248): list.insert, with -1
\* standing for "before the last reader"
registrar_lector(registro, lector, posicion) ==
    LET n == Len(registro)
        k == IF posicion = -1 THEN n - 1
             ELSE IF posicion > n THEN n ELSE posicion
    IN  SubSeq(registro, 1, k) \o <<lector>> \o SubSeq(registro, k + 1, n)

\* LectorFactory.crear_lector (lines 199-222) on the registry as it stands
\* after registrations
crear_lector_en(registro, nombre) ==
    LET extension == Lower(SplitExt(nombre)[2])
        capaces == {i \in 1..Len(registro) :
                        puede_leer(registro[i], extension)}
    IN  IF capaces = {} THEN "LectorGenerico"
        ELSE registro[CHOOSE i \in capaces : \A j \in capaces : i <= j]

\* LectorFactory.obtener_extensiones_soportadas (lines 250-276)
obtener_extensiones_soportadas(registro) ==
    UNION {IF tiene_EXTENSIONES(registro[i]) THEN EXTENSIONES_TEXTO
           ELSE IF puede_leer(registro[i], <<".","t","e","s","t">>) THEN {}
           ELSE {EXTENSIONES_COMUNES[k] : k \in
                    {j \in 1..Len(EXTENSIONES_COMUNES) :
                        puede_leer(registro[i], EXTENSIONES_COMUNES[j])}} :
           i \in 1..Len(registro)}

\* A file on disk, as the readers see it:
\*   nombre  the file name
\*   estado  "ok"; "sin_acceso" (open() raises an OSError); "corrupto" (the
\*           document library raises while parsing); "sin_libreria" (the
\*           import of the document library fails); "memoria" (read()
\*           raises MemoryError)
\*   bytes   the bytes of the file, one character per byte; BYTE_FF is a
\*           byte that no UTF-8 text contains
\*   partes  for a document, the text of its pages, paragraphs, cells or
\*           shapes
BYTE_FF == "FF"

\* LectorTexto.ENCODINGS (line 57)
ENCODINGS == <<"utf-8", "latin-1", "cp1252", "iso-8859-1">>

\* the result of a call: a returned string or a raised exception
Devuelve(s) == [excepcion |-> "", valor |-> s]

Lanza(e) == [excepcion |-> e, valor |-> <<>>]

\* open(ruta, 'r', encoding=encoding).read(): utf-8 does not decode BYTE_FF;
\* the one-byte encodings decode every byte of the model, BYTE_FF as the
\* character of the same code
LeerCon(archivo, encoding) ==
    IF archivo.estado = "sin_acceso" THEN Lanza("OSError")
    ELSE IF archivo.estado = "memoria" THEN Lanza("MemoryError")
    ELSE IF encoding = "utf-8" /\ \E i \in 1..Len(archivo.bytes) :
                                      archivo.bytes[i] = BYTE_FF
    THEN Lanza("UnicodeDecodeError")
    ELSE Devuelve(archivo.bytes)

\* the parts of a document, each followed by sep
RECURSIVE Unir(_, _)
Unir(partes, sep) ==
    IF partes = <<>> THEN <<>>
    ELSE Head(partes) \o sep \o Unir(Tail(partes), sep)

\* sep.join(partes)
RECURSIVE Join(_, _)
Join(partes, sep) ==
    IF partes = <<>> THEN <<>>
    ELSE IF Len(partes) = 1 THEN Head(partes)
    ELSE Head(partes) \o sep \o Join(Tail(partes), sep)

\* LectorTexto.leer (lines 62-70), from the k-th encoding on: the first
\* encoding that opens and decodes the file gives the lowercased text;
\* OSError and UnicodeDecodeError move on to the next encoding, any other
\* exception leaves the method; "" when no encoding is left
RECURSIVE LeerTexto(_, _)
LeerTexto(archivo, k) ==
    IF k > Len(ENCODINGS) THEN Devuelve(<<>>)
    ELSE LET r == LeerCon(archivo, ENCODINGS[k])
         IN  IF r.excepcion = "" THEN Devuelve(Lower(r.valor))
             ELSE IF r.excepcion \in {"UnicodeDecodeError", "OSError"}
             THEN LeerTexto(archivo, k + 1)
             ELSE r

\* LectorPDF.leer, LectorDOCX.leer, LectorXLSX.leer, LectorPPTX.leer (lines
\* 79-160): every exception is caught and gives ""
LeerDocumento(lector, archivo) ==
    IF archivo.estado # "ok" THEN Devuelve(<<>>)
    ELSE IF lector = "LectorPDF" THEN Devuelve(Lower(Unir(archivo.partes, <<>>)))
    ELSE IF lector = "LectorDOCX"
    THEN Devuelve(Lower(Join(archivo.partes, <<"\n">>)))
    ELSE IF lector = "LectorXLSX"
    THEN Devuelve(IF archivo.partes = <<>> THEN <<>>
                  ELSE Lower(Unir(archivo.partes, <<" ">>) \o <<"\n">>))
    ELSE Devuelve(Lower(Unir(archivo.partes, <<"\n">>)))

\* lector.leer(ruta)
leer(lector, archivo) ==
    IF lector = "LectorTexto" THEN LeerTexto(archivo, 1)
    ELSE IF lector = "LectorGenerico" THEN Devuelve(<<>>)
    ELSE LeerDocumento(lector, archivo)

\* a wrapper that lets the exception of the reader through
leer_sin_red(archivo) ==
    LET r == leer(crear_lector(archivo.nombre), archivo)
    IN  IF r.excepcion # "" THEN Lanza(r.excepcion) ELSE Devuelve(r.valor)

\* leer_contenido_archivo (lectores.py, lines 281-306)
leer_contenido_archivo(archivo) ==
    LET r == leer(crear_lector(archivo.nombre), archivo)
    IN  IF r.excepcion # "" THEN Devuelve(<<>>) ELSE Devuelve(r.valor)

N_rotopdf == <<"r","o","t","o",".","p","d","f">>

\* the text stored in a file, by file name
TextoDe(nombre) ==
    IF nombre = N_reporttxt THEN <<"H","e","l","l","o"," ","W","o","r","l","d">>
    ELSE IF nombre = N_ReportPDF THEN <<"H","o","l","a">>
    ELSE IF nombre = N_rpy THEN <<"P","r">>
    ELSE <<"r">>

\* every file name of the trees of the model
NombresEnDisco ==
    { N_ReportPDF, N_reporttxt, N_imagejpg, N_notas, N_RP, N_pr, N_puntor,
      N_rpy, N_Pr, N_rotopdf }

\* the file of that name: unreadable when its volume is gone, roto.pdf is
\* not a PDF document
ArchivoEnDisco(nombre, montada) ==
    [nombre |-> nombre,
     estado |-> IF ~montada THEN "sin_acceso"
                ELSE IF nombre = N_rotopdf THEN "corrupto"
                ELSE "ok",
     bytes  |-> TextoDe(nombre),
     partes |-> <<TextoDe(nombre)>>]

\* leer_contenido_archivo(archivo['ruta']) for every file of the model, with
\* its volume plugged in and with its volume gone
Lecturas ==
    [n \in NombresEnDisco |->
        [montada \in BOOLEAN |->
            leer_contenido_archivo(ArchivoEnDisco(n, montada)).valor]]

\* _ejecutar_busqueda_contenido_thread, lines 640-644: the list to scan
buscador_inicio ==
    /\ buscador.pc = "inicio"
    /\ buscador' = [buscador EXCEPT
                      !.lista = todos_los_archivos,
                      !.pc = IF todos_los_archivos = <<>> THEN "emitir" ELSE "scan"]
    /\ objeto' = Intactos
    /\ UNCHANGED <<unidad_seleccionada, resultados, todos_los_archivos,
                   indice_nombres, indice_extensiones, unidades_previas,
                   tipo_busqueda, buscando_contenido, indexando,
                   thread_indexacion_activo, cancelar_indexacion,
                   lock_indexacion, botones, search_input, btn_buscar,
                   results_list, timer_autocompletar, diferidos, alerta, ui,
                   cola, hilos, montadas, disco, llamada, gestor>>

\* a scan that ends at the first file that gives no text
buscador_archivo_aborta ==
    LET archivo == Head(buscador.lista)
        contenido == Lecturas[archivo.nombre][archivo.ruta.unidad \in montadas]
    IN  /\ buscador.pc = "scan"
        /\ buscador' = [buscador EXCEPT
                          !.coincidencias =
                              IF Contiene(Lower(buscador.texto), contenido)
                              THEN Append(@, archivo) ELSE @,
                          !.lista = Tail(@),
                          !.pc = IF Tail(buscador.lista) = <<>>
                                    \/ contenido = <<>>
                                 THEN "emitir" ELSE "scan"]
    /\ objeto' = Intactos
    /\ UNCHANGED <<unidad_seleccionada, resultados, todos_los_archivos,
                   indice_nombres, indice_extensiones, unidades_previas,
                   tipo_busqueda, buscando_contenido, indexando,
                   thread_indexacion_activo, cancelar_indexacion,
                   lock_indexacion, botones, search_input, btn_buscar,
                   results_list, timer_autocompletar, diferidos, alerta, ui,
                   cola, hilos, montadas, disco, llamada, gestor>>

\* one iteration of the scan (lines 644-655); the progress signal only
\* rewrites a list row
buscador_archivo ==
    LET archivo == Head(buscador.lista)
        contenido == Lecturas[archivo.nombre][archivo.ruta.unidad \in montadas]
    IN  /\ buscador.pc = "scan"
        /\ buscador' = [buscador EXCEPT
                          !.coincidencias =
                              IF Contiene(Lower(buscador.texto), contenido)
                              THEN Append(@, archivo) ELSE @,
                          !.lista = Tail(@),
                          !.pc = IF Tail(buscador.lista) = <<>> THEN "emitir"
                                 ELSE "scan"]
    /\ objeto' = Intactos
    /\ UNCHANGED <<unidad_seleccionada, resultados, todos_los_archivos,
                   indice_nombres, indice_extensiones, unidades_previas,
                   tipo_busqueda, buscando_contenido, indexando,
                   thread_indexacion_activo, cancelar_indexacion,
                   lock_indexacion, botones, search_input, btn_buscar,
                   results_list, timer_autocompletar, diferidos, alerta, ui,
                   cola, hilos, montadas, disco, llamada, gestor>>

\* a thread that ends without a signal
buscador_termina_mudo ==
    /\ buscador.pc = "emitir"
    /\ buscador' = BuscadorLibre
    /\ objeto' = Intactos
    /\ UNCHANGED <<unidad_seleccionada, resultados, todos_los_archivos,
                   indice_nombres, indice_extensiones, unidades_previas,
                   tipo_busqueda, buscando_contenido, indexando,
                   thread_indexacion_activo, cancelar_indexacion,
                   lock_indexacion, botones, search_input, btn_buscar,
                   results_list, timer_autocompletar, diferidos, alerta, ui,
                   cola, hilos, montadas, disco, llamada, gestor>>

\* line 657: busqueda_finalizada.emit(coincidencias, texto).  No statement
\* of the thread outside the try of the loop body can raise, so the emit of
\* error_busqueda (line 659) is never reached.
buscador_emitir ==
    /\ buscador.pc = "emitir"
    /\ cola' = Append(cola, Senal("busqueda_finalizada", 0,
                                  buscador.coincidencias, buscador.texto))
    /\ buscador' = BuscadorLibre
    /\ objeto' = Intactos
    /\ UNCHANGED <<unidad_seleccionada, resultados, todos_los_archivos,
                   indice_nombres, indice_extensiones, unidades_previas,
                   tipo_busqueda, buscando_contenido, indexando,
                   thread_indexacion_activo, cancelar_indexacion,
                   lock_indexacion, botones, search_input, btn_buscar,
                   results_list, timer_autocompletar, diferidos, alerta, ui,
                   hilos, montadas, disco, llamada, gestor>>

\* _on_busqueda_finalizada (lines 661-671) and _mostrar_resultados_contenido
on_busqueda_finalizada ==
    /\ ui.pc = "idle"
    /\ cola # <<>>
    /\ Head(cola).senal = "busqueda_finalizada"
    /\ cola' = Tail(cola)
    /\ buscando_contenido' = FALSE
    /\ btn_buscar' = TRUE
    /\ search_input' = [search_input EXCEPT !.enabled = TRUE]
    /\ resultados' = Head(cola).coincidencias
    /\ results_list' = Lista("contenido", Head(cola).texto)
    /\ objeto' = Intactos
    /\ UNCHANGED <<unidad_seleccionada, todos_los_archivos, indice_nombres,
                   indice_extensiones, unidades_previas, tipo_busqueda,
                   indexando, thread_indexacion_activo, cancelar_indexacion,
                   lock_indexacion, botones, timer_autocompletar, diferidos,
                   alerta, ui, hilos, buscador, montadas, disco, llamada,
                   gestor>>


-----------------------------------------------------------------------------
(* The search history: GestorHistorial *)

\* the characters of the model in code-point order
CodePoints == <<" ", ".", "@">> \o Mayusculas \o Minusculas

Codigo(c) == CHOOSE i \in 1..Len(CodePoints) : CodePoints[i] = c

\* a < b on Python strings: at the first position where they differ the
\* character of a has the smaller code point, or a is a proper prefix of b
Menor(a, b) ==
    \E k \in 1..(Len(a) + 1) :
        /\ k <= Len(b)
        /\ SubSeq(a, 1, k - 1) = SubSeq(b, 1, k - 1)
        /\ k > Len(a) \/ Codigo(a[k]) < Codigo(b[k])

\* a list returned as it is given
lista_sin_ordenar(lista) == lista

\* _ordenar_lista (lines 76-87): sorted(lista, key=lambda x: x.lower()).
\* sorted is stable: of two terms with the same key, the one that came first
\* in lista comes first in the result.
RECURSIVE ordenar_lista(_)
ordenar_lista(lista) ==
    IF lista = <<>> THEN <<>>
    ELSE LET n == Len(lista)
             x == lista[n]
             s == ordenar_lista(SubSeq(lista, 1, n - 1))
             p == Cardinality({i \in 1..(n - 1) :
                                  ~Menor(Lower(x), Lower(s[i]))})
         IN  SubSeq(s, 1, p) \o <<x>> \o SubSeq(s, p + 1, n - 1)

\* list.remove(x): the first occurrence of x is taken out
Remove(lista, x) ==
    LET i == CHOOSE k \in 1..Len(lista) :
                 lista[k] = x /\ \A j \in 1..(k - 1) : lista[j] # x
    IN  SubSeq(lista, 1, i - 1) \o SubSeq(lista, i + 1, Len(lista))

\* GestorHistorial.MAX_BUSQUEDAS, which is 100 in the source (line 25); the
\* model keeps the cap small so that a handful of terms goes over it
MAX_BUSQUEDAS == 3

\* lista[-MAX_BUSQUEDAS:]
Ultimos(lista) ==
    IF Len(lista) > MAX_BUSQUEDAS
    THEN SubSeq(lista, Len(lista) - MAX_BUSQUEDAS + 1, Len(lista))
    ELSE lista

\* _guardar_historial (lines 58-73): the list is sorted, then written to the
\* file; a failed write leaves the sorted list in place
guardar_historial(historial) == ordenar_lista(historial)

\* a history that stores the term as it was typed
agregar_sin_strip(historial, termino) ==
    LET sin == IF termino \in Rango(historial) THEN Remove(historial, termino)
               ELSE historial
    IN  IF termino = <<>> THEN historial
        ELSE guardar_historial(ordenar_lista(Ultimos(Append(sin, termino))))

\* agregar (lines 89-124): the list after the call
agregar(historial, termino) ==
    LET t == Strip(termino)
        sin == IF t \in Rango(historial) THEN Remove(historial, t)
               ELSE historial
    IN  IF t = <<>> THEN historial
        ELSE guardar_historial(ordenar_lista(Ultimos(Append(sin, t))))

\* agregar (lines 105-124): the value returned; a blank term returns False
\* before anything is written, any other the outcome of _guardar_historial
agregar_devuelve(termino, escrito) ==
    IF Strip(termino) = <<>> THEN FALSE ELSE escrito

\* eliminar_termino (lines 180-193): the list after the call
eliminar_termino(historial, termino) ==
    IF termino \in Rango(historial)
    THEN guardar_historial(Remove(historial, termino))
    ELSE historial

\* limpiar (lines 151-159): the list after the call
limpiar == guardar_historial(<<>>)

\* obtener_todos (lines 161-168)
obtener_todos(historial) == ordenar_lista(historial)

\* buscar_coincidencias (lines 126-149)
buscar_coincidencias(historial, texto) ==
    IF texto = <<>> THEN ordenar_lista(historial)
    ELSE ordenar_lista(SelectSeq(historial,
                           LAMBDA termino :
                               Contiene(Lower(texto), Lower(termino))))

-----------------------------------------------------------------------------
(* The combined search of utils.py and utils_SUPER_OPTIMIZADO.py *)

\* _buscar_por_nombre (utils.py 664-680, utils_SUPER_OPTIMIZADO.py 763-779):
\* the files whose lowercased stem contains the text
buscar_por_nombre(archivos, texto) ==
    SelectSeq(archivos,
        LAMBDA archivo : Contiene(texto, Lower(SplitExt(archivo.nombre)[1])))

\* _buscar_por_extension (utils.py 682-700, utils_SUPER_OPTIMIZADO.py
\* 781-799): a dot is put before a text that has none
buscar_por_extension(archivos, texto) ==
    LET con_punto == IF texto # <<>> /\ texto[1] = "." THEN texto
                     ELSE <<".">> \o texto
    IN  SelectSeq(archivos, LAMBDA archivo : archivo.extension = con_punto)

\* EXTENSIONES_DOCUMENTOS.keys() (line 35 of both files)
EXTENSIONES_DOCUMENTOS ==
    { <<".","d","o","c","x">>, <<".","p","p","t","x">>,
      <<".","x","l","s","x">>, <<".","p","d","f">> }

\* leer_contenido_archivo of utils.py and utils_SUPER_OPTIMIZADO.py (line 97)
\* on a readable file: the lowercased text of a text file or a document, the
\* empty string for any other extension
leer_contenido_utils(archivo) ==
    IF archivo.extension \in EXTENSIONES_TEXTO \cup EXTENSIONES_DOCUMENTOS
    THEN Lower(TextoDe(archivo.nombre))
    ELSE <<>>

\* _buscar_por_contenido (utils.py 702-735)
buscar_por_contenido(archivos, texto) ==
    SelectSeq(archivos,
        LAMBDA archivo : Contiene(texto, leer_contenido_utils(archivo)))

MAX_ARCHIVOS_CONTENIDO == 200

\* _buscar_por_contenido_optimizado (utils_SUPER_OPTIMIZADO.py 801-876): the
\* first MAX_ARCHIVOS_CONTENIDO files with a searchable extension; the files
\* of the model are under the size limit
buscar_por_contenido_optimizado(archivos, texto) ==
    LET archivos_texto ==
            SelectSeq(archivos,
                LAMBDA archivo : archivo.extension \in
                    EXTENSIONES_TEXTO \cup EXTENSIONES_DOCUMENTOS)
        archivos_a_buscar ==
            SubSeq(archivos_texto, 1,
                   IF Len(archivos_texto) < MAX_ARCHIVOS_CONTENIDO
                   THEN Len(archivos_texto) ELSE MAX_ARCHIVOS_CONTENIDO)
    IN  SelectSeq(archivos_a_buscar,
            LAMBDA archivo :
                /\ leer_contenido_utils(archivo) # <<>>
                /\ Contiene(texto, leer_contenido_utils(archivo)))

\* "for archivo in resultados: archivos_encontrados[archivo['ruta']] =
\* archivo" on a dict, kept as the list of its values in insertion order
RECURSIVE Acumular(_, _)
Acumular(archivos_encontrados, encontrados) ==
    IF encontrados = <<>> THEN archivos_encontrados
    ELSE LET archivo == Head(encontrados)
             ya == {i \in 1..Len(archivos_encontrados) :
                       archivos_encontrados[i].ruta = archivo.ruta}
         IN  Acumular(IF ya = {} THEN Append(archivos_encontrados, archivo)
                      ELSE [i \in 1..Len(archivos_encontrados) |->
                               IF i \in ya THEN archivo
                               ELSE archivos_encontrados[i]],
                      Tail(encontrados))

\* BusquedaPor of utils.py (lines 614-644)
BusquedaPor_utils(archivos, texto) ==
    Acumular(Acumular(Acumular(<<>>, buscar_por_nombre(archivos, texto)),
                      buscar_por_extension(archivos, texto)),
             buscar_por_contenido(archivos, texto))

\* a combined search that keeps the files found by name and by extension both
BusquedaPorAmbos(archivos, texto, incluir_contenido) ==
    SelectSeq(buscar_por_nombre(archivos, texto),
        LAMBDA archivo :
            archivo \in Rango(buscar_por_extension(archivos, texto)))

\* BusquedaPor of utils_SUPER_OPTIMIZADO.py (lines 675-712)
BusquedaPor(archivos, texto, incluir_contenido) ==
    Acumular(Acumular(Acumular(<<>>, buscar_por_nombre(archivos, texto)),
                      buscar_por_extension(archivos, texto)),
             IF incluir_contenido
             THEN buscar_por_contenido_optimizado(archivos, texto)
             ELSE <<>>)

-----------------------------------------------------------------------------
(* Opening a result: _mostrar_resultados and abrir_item *)

\* the five rows _mostrar_resultados puts before the results (lines 700-704):
\* an empty row, the title, the count, an empty row and the rule; the texts
\* are cut to their first character after the two blanks
FilasDeCabecera ==
    << <<>>, <<" "," ","B">>, <<" "," ","R">>, <<>>, <<" "," ","=">> >>

\* the rows of the list widget after _mostrar_resultados (lines 687-721): the
\* header, then one row "  <nombre>" per record (lines 712-714), or the two
\* rows of "No se encontraron archivos"; MAX_ARCHIVOS_MOSTRADOS exceeds any
\* list
Filas(coincidencias) ==
    FilasDeCabecera
    \o IF coincidencias = <<>>
       THEN << <<>>, <<" "," ","N">> >>
       ELSE [i \in 1..Len(coincidencias) |->
                <<" "," ">> \o coincidencias[i].nombre]

\* abrir_item (lines 782-797): the paths handed to os.startfile, none or one:
\* the path of the first record of resultados whose name is the stripped
\* text of the row
abrir_item(mostrados, item) ==
    LET texto == Strip(item)
        iguales == {i \in 1..Len(mostrados) : mostrados[i].nombre = texto}
    IN  IF iguales = {} THEN <<>>
        ELSE << mostrados[CHOOSE i \in iguales :
                              \A j \in iguales : i <= j].ruta >>

-----------------------------------------------------------------------------
(* The environment *)

\* a volume is plugged in
Montar(l) ==
    /\ l \notin montadas
    /\ montadas' = montadas \cup {l}
    /\ objeto' = Intactos
    /\ UNCHANGED <<unidad_seleccionada, resultados, todos_los_archivos,
                   indice_nombres, indice_extensiones, unidades_previas,
                   tipo_busqueda, buscando_contenido, indexando,
                   thread_indexacion_activo, cancelar_indexacion,
                   lock_indexacion, botones, search_input, btn_buscar,
                   results_list, timer_autocompletar, diferidos, alerta, ui,
                   cola, hilos, buscador, disco, llamada, gestor>>

\* a volume is pulled out
Desmontar(l) ==
    /\ l \in montadas
    /\ montadas' = montadas \ {l}
    /\ objeto' = Intactos
    /\ UNCHANGED <<unidad_seleccionada, resultados, todos_los_archivos,
                   indice_nombres, indice_extensiones, unidades_previas,
                   tipo_busqueda, buscando_contenido, indexando,
                   thread_indexacion_activo, cancelar_indexacion,
                   lock_indexacion, botones, search_input, btn_buscar,
                   results_list, timer_autocompletar, diferidos, alerta, ui,
                   cola, hilos, buscador, disco, llamada, gestor>>

-----------------------------------------------------------------------------
(* The program *)

\* A GestorHistorial made with no file to load (lines 28-57), and the last
\* call made on it:
\*   historial  self.historial
\*   llamada    the last call made
\*   termino    its argument
\*   resultado  the list it returned (obtener_todos, buscar_coincidencias)
\*   orden      the terms in the history, from the least recently added to
\*              the most recently added
GestorNuevo ==
    [historial |-> <<>>, llamada |-> "init", termino |-> <<>>,
     resultado |-> <<>>, devuelve |-> FALSE, orden |-> <<>>]

\* the state after BuscadorArchivos.__init__ (lines 104-153) with the volumes
\* in m plugged in and the trees d on them, but for unidades_previas
InitBase(m, d) ==
    /\ montadas = m
    /\ disco = d
    /\ unidad_seleccionada = None
    /\ resultados = <<>>
    /\ todos_los_archivos = <<>>
    /\ indice_nombres = DictVacio
    /\ indice_extensiones = DictVacio
    /\ tipo_busqueda = BUSQUEDA_NOMBRE
    /\ buscando_contenido = FALSE
    /\ indexando = FALSE
    /\ thread_indexacion_activo = 0
    /\ cancelar_indexacion = FALSE
    /\ lock_indexacion = 0
    /\ botones = {[texto |-> TextoUnidad(l), ruta |-> l] :
                     l \in {x \in m : InfoVolumen(x).tipo_unidad \in {2, 3}}}
    /\ search_input = [text |-> <<>>, enabled |-> TRUE]
    /\ btn_buscar = TRUE
    /\ results_list = Lista("inicial", <<>>)
    /\ timer_autocompletar = FALSE
    /\ diferidos = 0
    /\ alerta = ""
    /\ ui = UiIdle
    /\ cola = <<>>
    /\ hilos = [t \in 1..MaxHilos |-> HiloLibre]
    /\ buscador = BuscadorLibre
    /\ objeto = Intactos
    /\ gestor = GestorNuevo

\* no call of the readers outside the content search
SinLlamada ==
    [pc |-> "nada",
     archivo |-> [nombre |-> <<>>, estado |-> "ok", bytes |-> <<>>,
                  partes |-> <<>>],
     lector |-> "",
     resultado |-> Devuelve(<<>>),
     registro |-> lectores,
     extensiones |-> {},
     archivos |-> <<>>,
     texto |-> <<>>,
     incluir_contenido |-> FALSE,
     coincidencias |-> <<>>,
     fila |-> 0,
     abierto |-> <<>>]

\* the state after __init__: no poll has run yet
InitCon(m, d) ==
    /\ InitBase(m, d)
    /\ unidades_previas = {}
    /\ llamada = SinLlamada

Init == \E m \in SUBSET Unidades : InitCon(m, DiscoFijo)

\* every step the program, its user and its volumes can take
Next ==
    \/ \E u \in botones : SelInicio(u)
    \/ SelJoinTermina
    \/ SelJoinTimeout
    \/ SelLimpiar
    \/ SelArrancar
    \/ verificar_cambios_usb
    \/ on_indexacion_completa
    \/ \E t \in 1..MaxHilos : Indexador(t)
    \/ \E t \in TextosVivo : on_texto_cambiado(t)
    \/ timer_dispara
    \/ diferido_dispara
    \/ buscar_archivos
    \/ leer_nombre
    \/ leer_extension
    \/ cerrar_alerta
    \/ buscador_inicio
    \/ buscador_archivo
    \/ buscador_emitir
    \/ on_busqueda_finalizada
    \/ \E l \in Unidades : Montar(l)
    \/ \E l \in Unidades : Desmontar(l)

Spec == Init /\ [][Next]_vars

\* Indexing alone: the user only selects units, at any moment, while volumes
\* come and go; nothing is typed.
NextIndexacion ==
    \/ \E u \in botones : SelInicio(u)
    \/ SelJoinTermina
    \/ SelJoinTimeout
    \/ SelLimpiar
    \/ SelArrancar
    \/ verificar_cambios_usb
    \/ on_indexacion_completa
    \/ \E t \in 1..MaxHilos : Indexador(t)
    \/ \E l \in Unidades : Montar(l)
    \/ \E l \in Unidades : Desmontar(l)

SpecIndexacion == Init /\ [][NextIndexacion]_vars

\* Selection alone: both volumes stay plugged in, the user only selects
\* units, at any moment; nothing is typed.
InitSeleccion == InitCon(Unidades, DiscoFijo)

NextSeleccion ==
    \/ \E u \in botones : SelInicio(u)
    \/ SelJoinTermina
    \/ SelJoinTimeout
    \/ SelLimpiar
    \/ SelArrancar
    \/ verificar_cambios_usb
    \/ on_indexacion_completa
    \/ \E t \in 1..MaxHilos : Indexador(t)

SpecSeleccion == InitSeleccion /\ [][NextSeleccion]_vars

\* Removal: the only volume is E, whose button text is exactly "E:/"; it
\* comes and goes while the user selects it at any moment.
InitExpulsion == \E m \in SUBSET {"E"} : InitCon(m, DiscoFijo)

NextExpulsion ==
    \/ \E u \in botones : SelInicio(u)
    \/ SelJoinTermina
    \/ SelJoinTimeout
    \/ SelLimpiar
    \/ SelArrancar
    \/ verificar_cambios_usb
    \/ on_indexacion_completa
    \/ \E t \in 1..MaxHilos : Indexador(t)
    \/ Montar("E")
    \/ Desmontar("E")

SpecExpulsion == InitExpulsion /\ [][NextExpulsion]_vars

\* Reading while indexing: both volumes stay plugged in; the user selects
\* units at any moment and types name and extension queries.
InitLectura == InitCon(Unidades, DiscoFijo)

NextLectura ==
    \/ \E u \in botones : SelInicio(u)
    \/ SelJoinTermina
    \/ SelJoinTimeout
    \/ SelLimpiar
    \/ SelArrancar
    \/ verificar_cambios_usb
    \/ on_indexacion_completa
    \/ \E t \in 1..MaxHilos : Indexador(t)
    \/ \E t \in TextosVivo : on_texto_cambiado(t)
    \/ timer_dispara
    \/ diferido_dispara
    \/ buscar_archivos
    \/ leer_nombre
    \/ leer_extension

SpecLectura == InitLectura /\ [][NextLectura]_vars

\* Queries on a finished index: both volumes stay plugged in, the trees are
\* drawn from DiscosConsulta, and the user is patient: a unit is selected
\* only when nothing is being indexed or searched, and text is typed only
\* when nothing is being indexed or searched and no timer is pending, one
\* query at a time (the input is emptied between two queries); the input
\* may also be emptied while a unit is being indexed.  The user starts
\* after the first tick of timer_usb, which has recorded the volumes.
InitConsulta ==
    \E d \in DiscosConsulta :
        /\ InitBase(Unidades, d)
        /\ unidades_previas = detectar_unidades_disponibles
        /\ llamada = SinLlamada

Reposo ==
    /\ ~indexando
    /\ Vivos = {}
    /\ cola = <<>>
    /\ ~timer_autocompletar
    /\ diferidos = 0
    /\ ~buscando_contenido

seleccion_paciente(u) ==
    /\ ~indexando
    /\ Vivos = {}
    /\ cola = <<>>
    /\ diferidos = 0
    /\ ~buscando_contenido
    /\ SelInicio(u)

texto_paciente(t) ==
    /\ \/ Reposo /\ (search_input.text = <<>> \/ t = <<>>)
       \/ indexando /\ t = <<>>
    /\ on_texto_cambiado(t)

NextConsulta ==
    \/ \E u \in botones : seleccion_paciente(u)
    \/ SelLimpiar
    \/ SelArrancar
    \/ verificar_cambios_usb
    \/ on_indexacion_completa
    \/ \E t \in 1..MaxHilos : Indexador(t)
    \/ \E t \in Textos : texto_paciente(t)
    \/ timer_dispara
    \/ diferido_dispara
    \/ buscar_archivos
    \/ leer_nombre
    \/ leer_extension
    \/ cerrar_alerta
    \/ buscador_inicio
    \/ buscador_archivo
    \/ buscador_emitir
    \/ on_busqueda_finalizada

SpecConsulta == InitConsulta /\ [][NextConsulta]_vars

\* the query texts typed in the typing specification
TextosTecleo ==
    { <<>>, <<"r">>, <<".","r">>, <<"P">>, <<".","P">>, <<"@","r">>, <<"@">> }

\* Typing at any moment: both volumes stay plugged in, the trees are drawn
\* from DiscosConsulta and a unit is selected only when nothing is being
\* indexed or searched, but the user changes the text and presses Enter at
\* any moment: while the timer is pending, while a unit is being indexed,
\* between two queries.
NextTecleo ==
    \/ \E u \in botones : seleccion_paciente(u)
    \/ SelLimpiar
    \/ SelArrancar
    \/ verificar_cambios_usb
    \/ on_indexacion_completa
    \/ \E t \in 1..MaxHilos : Indexador(t)
    \/ \E t \in TextosTecleo : on_texto_cambiado(t)
    \/ timer_dispara
    \/ diferido_dispara
    \/ buscar_archivos
    \/ leer_nombre
    \/ leer_extension
    \/ cerrar_alerta
    \/ buscador_inicio
    \/ buscador_archivo
    \/ buscador_emitir
    \/ on_busqueda_finalizada

SpecTecleo == InitConsulta /\ [][NextTecleo]_vars

\* The readers alone (lectores.py): a file is drawn, then the factory or
\* leer_contenido_archivo is called on it.
ExtensionesLectura ==
    EXTENSIONES_TEXTO
    \cup { <<".","p","d","f">>, <<".","d","o","c","x">>,
           <<".","x","l","s","x">>, <<".","x","l","s">>,
           <<".","p","p","t","x">> }
    \cup { <<>>, <<".","j","p","g">>, <<".","T","X","T">>, <<".","P","d","f">>,
           <<".","X","L","S">>, <<".","d","o","c">>, <<".","p","d","f","x">>,
           <<".","t","x","t",".","b","a","k">>, <<".">> }

NombresLectura ==
    {<<"a">> \o e : e \in ExtensionesLectura} \cup {<<".","t","x","t">>}

EstadosLectura == {"ok", "sin_acceso", "corrupto", "sin_libreria", "memoria"}

ContenidosLectura ==
    { <<>>, << <<"H","o">> >>, << <<"A">>, <<"b", BYTE_FF>> >> }

InitLectores ==
    /\ InitBase(Unidades, DiscoFijo)
    /\ unidades_previas = {}
    /\ \E n \in NombresLectura, e \in EstadosLectura, c \in ContenidosLectura :
          llamada = [SinLlamada EXCEPT
                        !.pc = "inicio",
                        !.archivo = [nombre |-> n, estado |-> e,
                                     bytes |-> Unir(c, <<>>), partes |-> c]]

\* lector = LectorFactory.crear_lector(ruta)
llamar_crear_lector ==
    /\ llamada.pc = "inicio"
    /\ llamada' = [llamada EXCEPT
                      !.pc = "creado",
                      !.lector = crear_lector(llamada.archivo.nombre)]
    /\ objeto' = Intactos
    /\ UNCHANGED <<unidad_seleccionada, resultados, todos_los_archivos,
                   indice_nombres, indice_extensiones, unidades_previas,
                   tipo_busqueda, buscando_contenido, indexando,
                   thread_indexacion_activo, cancelar_indexacion,
                   lock_indexacion, botones, search_input, btn_buscar,
                   results_list, timer_autocompletar, diferidos, alerta, ui,
                   cola, hilos, buscador, montadas, disco, gestor>>

\* contenido = leer_contenido_archivo(ruta)
llamar_leer_contenido_archivo ==
    /\ llamada.pc = "inicio"
    /\ llamada' = [llamada EXCEPT
                      !.pc = "leido",
                      !.resultado = leer_contenido_archivo(llamada.archivo)]
    /\ objeto' = Intactos
    /\ UNCHANGED <<unidad_seleccionada, resultados, todos_los_archivos,
                   indice_nombres, indice_extensiones, unidades_previas,
                   tipo_busqueda, buscando_contenido, indexando,
                   thread_indexacion_activo, cancelar_indexacion,
                   lock_indexacion, botones, search_input, btn_buscar,
                   results_list, timer_autocompletar, diferidos, alerta, ui,
                   cola, hilos, buscador, montadas, disco, gestor>>

NextLectores ==
    \/ llamar_crear_lector
    \/ llamar_leer_contenido_archivo

SpecLectores == InitLectores /\ [][NextLectores]_vars

\* Content search: D holds a PDF document, a file named .pdf that is not a
\* PDF document, a text file and an image; the user types content queries
\* and name queries at any moment and selects a unit only when nothing is
\* being indexed or searched.
ArbolContenidoD ==
    (<<>> :> [dirs |-> <<N_papelera, N_docs>>,
              files |-> <<N_ReportPDF, N_rotopdf>>])
    @@ (<<N_papelera>> :> [dirs |-> <<>>, files |-> <<N_imagejpg>>])
    @@ (<<N_docs>> :> [dirs |-> <<>>, files |-> <<N_reporttxt>>])

DiscoContenido == [l \in Unidades |-> IF l = "D" THEN ArbolContenidoD ELSE ArbolE]

TextosContenido ==
    { <<>>, <<"r">>, <<"@","o">>, <<"@","H","O","L","A">>, <<"@"," ","r">>,
      <<"@","z">>, <<".","t","x","t">> }

InitContenido ==
    /\ InitBase(Unidades, DiscoContenido)
    /\ unidades_previas = detectar_unidades_disponibles
    /\ llamada = SinLlamada

NextContenido ==
    \/ \E u \in botones : seleccion_paciente(u)
    \/ SelLimpiar
    \/ SelArrancar
    \/ verificar_cambios_usb
    \/ on_indexacion_completa
    \/ \E t \in 1..MaxHilos : Indexador(t)
    \/ \E t \in TextosContenido : on_texto_cambiado(t)
    \/ timer_dispara
    \/ diferido_dispara
    \/ buscar_archivos
    \/ leer_nombre
    \/ leer_extension
    \/ cerrar_alerta
    \/ buscador_inicio
    \/ buscador_archivo
    \/ buscador_emitir
    \/ on_busqueda_finalizada

SpecContenido == InitContenido /\ [][NextContenido]_vars

\* Content search with a restless user: as SpecContenido, and a unit may
\* also be selected while the content search runs.
seleccion_en_busqueda(u) ==
    /\ buscando_contenido
    /\ ~indexando
    /\ Vivos = {}
    /\ diferidos = 0
    /\ SelInicio(u)

NextBusqueda ==
    \/ NextContenido
    \/ \E u \in botones : seleccion_en_busqueda(u)

SpecBusqueda == InitContenido /\ [][NextBusqueda]_vars

\* Scheduling: a thread that can take a step is eventually run, the Qt event
\* loop eventually delivers the signal at the head of its queue, and a
\* handler that has started runs to its end.
Justicia ==
    /\ WF_vars(buscador_inicio)
    /\ WF_vars(buscador_archivo)
    /\ WF_vars(buscador_emitir)
    /\ WF_vars(on_busqueda_finalizada)
    /\ WF_vars(on_indexacion_completa)
    /\ WF_vars(SelLimpiar)
    /\ WF_vars(SelArrancar)
    /\ WF_vars(leer_nombre)
    /\ WF_vars(leer_extension)

SpecBusquedaJusta == SpecBusqueda /\ Justicia

\* The reader registry: a program registers readers (the EPUB reader of the
\* module's demonstration, a second text reader, a second generic reader)
\* at any position and then asks for the supported extensions.
MaxRegistros == 2

LectoresRegistrables == {"LectorEPUB", "LectorTexto", "LectorGenerico"}

InitRegistro ==
    /\ InitBase(Unidades, DiscoFijo)
    /\ unidades_previas = {}
    /\ llamada = [SinLlamada EXCEPT !.pc = "registro"]

\* LectorFactory.registrar_lector(lector, posicion)
llamar_registrar_lector ==
    /\ llamada.pc = "registro"
    /\ Len(llamada.registro) < Len(lectores) + MaxRegistros
    /\ \E l \in LectoresRegistrables, p \in -1..Len(llamada.registro) :
          llamada' = [llamada EXCEPT
                         !.registro = registrar_lector(@, l, p)]
    /\ objeto' = Intactos
    /\ UNCHANGED <<unidad_seleccionada, resultados, todos_los_archivos,
                   indice_nombres, indice_extensiones, unidades_previas,
                   tipo_busqueda, buscando_contenido, indexando,
                   thread_indexacion_activo, cancelar_indexacion,
                   lock_indexacion, botones, search_input, btn_buscar,
                   results_list, timer_autocompletar, diferidos, alerta, ui,
                   cola, hilos, buscador, montadas, disco, gestor>>

\* extensiones = LectorFactory.obtener_extensiones_soportadas()
llamar_obtener_extensiones_soportadas ==
    /\ llamada.pc = "registro"
    /\ llamada' = [llamada EXCEPT
                      !.pc = "extensiones",
                      !.extensiones = obtener_extensiones_soportadas(
                                          llamada.registro)]
    /\ objeto' = Intactos
    /\ UNCHANGED <<unidad_seleccionada, resultados, todos_los_archivos,
                   indice_nombres, indice_extensiones, unidades_previas,
                   tipo_busqueda, buscando_contenido, indexando,
                   thread_indexacion_activo, cancelar_indexacion,
                   lock_indexacion, botones, search_input, btn_buscar,
                   results_list, timer_autocompletar, diferidos, alerta, ui,
                   cola, hilos, buscador, montadas, disco, gestor>>

NextRegistro ==
    \/ llamar_registrar_lector
    \/ llamar_obtener_extensiones_soportadas

SpecRegistro == InitRegistro /\ [][NextRegistro]_vars

\* The search history on its own: a program makes any calls on a
\* GestorHistorial that started with no file, hence empty. escrito is whether
\* the write of the file in _guardar_historial went through (lines 65-73);
\* devuelve is the boolean a call returned, False after a call that returns
\* a list.
TerminosHistorial ==
    { <<>>, <<" ">>, <<"a">>, <<"b">>, <<"B">>, <<"c">>, <<"a", "b">>,
      <<" ", "a">>, <<"P", "r">> }

SinTermino(s, x) == SelectSeq(s, LAMBDA y : y # x)

llamar_agregar(termino) ==
    /\ \E escrito \in BOOLEAN :
        gestor' =
          LET h == agregar(gestor.historial, termino)
              t == Strip(termino)
          IN  [historial |-> h, llamada |-> "agregar", termino |-> termino,
               resultado |-> <<>>,
               devuelve |-> agregar_devuelve(termino, escrito),
               orden |-> IF t = <<>> THEN gestor.orden
                         ELSE SelectSeq(Append(SinTermino(gestor.orden, t), t),
                                        LAMBDA y : y \in Rango(h))]
    /\ objeto' = Intactos
    /\ UNCHANGED <<unidad_seleccionada, resultados, todos_los_archivos,
                   indice_nombres, indice_extensiones, unidades_previas,
                   tipo_busqueda, buscando_contenido, indexando,
                   thread_indexacion_activo, cancelar_indexacion,
                   lock_indexacion, botones, search_input, btn_buscar,
                   results_list, timer_autocompletar, diferidos, alerta, ui,
                   cola, hilos, buscador, montadas, disco, llamada>>

llamar_eliminar_termino(termino) ==
    /\ \E escrito \in BOOLEAN :
        gestor' = [historial |-> eliminar_termino(gestor.historial, termino),
                  llamada |-> "eliminar_termino", termino |-> termino,
                  resultado |-> <<>>,
                  devuelve |-> termino \in Rango(gestor.historial) /\ escrito,
                  orden |-> SinTermino(gestor.orden, termino)]
    /\ objeto' = Intactos
    /\ UNCHANGED <<unidad_seleccionada, resultados, todos_los_archivos,
                   indice_nombres, indice_extensiones, unidades_previas,
                   tipo_busqueda, buscando_contenido, indexando,
                   thread_indexacion_activo, cancelar_indexacion,
                   lock_indexacion, botones, search_input, btn_buscar,
                   results_list, timer_autocompletar, diferidos, alerta, ui,
                   cola, hilos, buscador, montadas, disco, llamada>>

llamar_limpiar ==
    /\ \E escrito \in BOOLEAN :
        gestor' = [GestorNuevo EXCEPT !.historial = limpiar,
                                      !.llamada = "limpiar",
                                      !.devuelve = escrito]
    /\ objeto' = Intactos
    /\ UNCHANGED <<unidad_seleccionada, resultados, todos_los_archivos,
                   indice_nombres, indice_extensiones, unidades_previas,
                   tipo_busqueda, buscando_contenido, indexando,
                   thread_indexacion_activo, cancelar_indexacion,
                   lock_indexacion, botones, search_input, btn_buscar,
                   results_list, timer_autocompletar, diferidos, alerta, ui,
                   cola, hilos, buscador, montadas, disco, llamada>>

llamar_obtener_todos ==
    /\ gestor' = [gestor EXCEPT !.llamada = "obtener_todos",
                                !.termino = <<>>,
                                !.devuelve = FALSE,
                                !.resultado = obtener_todos(gestor.historial)]
    /\ objeto' = Intactos
    /\ UNCHANGED <<unidad_seleccionada, resultados, todos_los_archivos,
                   indice_nombres, indice_extensiones, unidades_previas,
                   tipo_busqueda, buscando_contenido, indexando,
                   thread_indexacion_activo, cancelar_indexacion,
                   lock_indexacion, botones, search_input, btn_buscar,
                   results_list, timer_autocompletar, diferidos, alerta, ui,
                   cola, hilos, buscador, montadas, disco, llamada>>

llamar_buscar_coincidencias(texto) ==
    /\ gestor' = [gestor EXCEPT
                     !.llamada = "buscar_coincidencias",
                     !.termino = texto,
                     !.devuelve = FALSE,
                     !.resultado = buscar_coincidencias(gestor.historial,
                                                        texto)]
    /\ objeto' = Intactos
    /\ UNCHANGED <<unidad_seleccionada, resultados, todos_los_archivos,
                   indice_nombres, indice_extensiones, unidades_previas,
                   tipo_busqueda, buscando_contenido, indexando,
                   thread_indexacion_activo, cancelar_indexacion,
                   lock_indexacion, botones, search_input, btn_buscar,
                   results_list, timer_autocompletar, diferidos, alerta, ui,
                   cola, hilos, buscador, montadas, disco, llamada>>

NextHistorial ==
    \/ \E t \in TerminosHistorial : llamar_agregar(t)
    \/ \E t \in TerminosHistorial : llamar_eliminar_termino(t)
    \/ llamar_limpiar
    \/ llamar_obtener_todos
    \/ \E t \in {<<>>, <<"a">>, <<"B">>, <<"r">>} :
          llamar_buscar_coincidencias(t)

SpecHistorial == InitSeleccion /\ [][NextHistorial]_vars

\* The combined search of utils.py and utils_SUPER_OPTIMIZADO.py on its own:
\* BusquedaPor is called on any list of up to three indexed files of one
\* directory, with any of a few lowercased texts.
ArchivosCombinada ==
    {ArchivoDict("D", <<>>, n) : n \in {N_pr, N_rpy, N_RP, N_reporttxt}}

ListasCombinada ==
    {l \in UNION {[1..k -> ArchivosCombinada] : k \in 0..3} :
        \A i, j \in 1..Len(l) : l[i] = l[j] => i = j}

TextosCombinada ==
    { <<"r">>, <<".","r">>, <<"p","y">>, <<"p">>, <<"w","o","r">>, <<"z">> }

InitCombinada ==
    /\ InitBase(Unidades, DiscoFijo)
    /\ unidades_previas = {}
    /\ \E l \in ListasCombinada, t \in TextosCombinada :
          llamada = [SinLlamada EXCEPT !.pc = "combinada",
                                       !.archivos = l, !.texto = t]

\* coincidencias = self.BusquedaPor(texto) (utils.py, line 659)
llamar_BusquedaPor_utils ==
    /\ llamada.pc = "combinada"
    /\ llamada' = [llamada EXCEPT
                      !.pc = "BusquedaPor_utils",
                      !.coincidencias =
                          BusquedaPor_utils(llamada.archivos, llamada.texto)]
    /\ objeto' = Intactos
    /\ UNCHANGED <<unidad_seleccionada, resultados, todos_los_archivos,
                   indice_nombres, indice_extensiones, unidades_previas,
                   tipo_busqueda, buscando_contenido, indexando,
                   thread_indexacion_activo, cancelar_indexacion,
                   lock_indexacion, botones, search_input, btn_buscar,
                   results_list, timer_autocompletar, diferidos, alerta, ui,
                   cola, hilos, buscador, montadas, disco, gestor>>

\* coincidencias = self.BusquedaPor(texto, incluir_contenido=...)
\* (utils_SUPER_OPTIMIZADO.py, lines 750 and 1026)
llamar_BusquedaPor(incluir_contenido) ==
    /\ llamada.pc = "combinada"
    /\ llamada' = [llamada EXCEPT
                      !.pc = "BusquedaPor",
                      !.incluir_contenido = incluir_contenido,
                      !.coincidencias =
                          BusquedaPor(llamada.archivos, llamada.texto,
                                      incluir_contenido)]
    /\ objeto' = Intactos
    /\ UNCHANGED <<unidad_seleccionada, resultados, todos_los_archivos,
                   indice_nombres, indice_extensiones, unidades_previas,
                   tipo_busqueda, buscando_contenido, indexando,
                   thread_indexacion_activo, cancelar_indexacion,
                   lock_indexacion, botones, search_input, btn_buscar,
                   results_list, timer_autocompletar, diferidos, alerta, ui,
                   cola, hilos, buscador, montadas, disco, gestor>>

NextCombinada ==
    \/ llamar_BusquedaPor_utils
    \/ \E b \in BOOLEAN : llamar_BusquedaPor(b)

SpecCombinada == InitCombinada /\ [][NextCombinada]_vars

\* Input validation: as SpecContenido, with nothing on volume E, so that a
\* unit can be selected and indexed and still have no file.
ArbolVacio == (<<>> :> [dirs |-> <<>>, files |-> <<>>])

DiscoVacioE == [l \in Unidades |-> IF l = "D" THEN ArbolContenidoD ELSE ArbolVacio]

InitEntrada ==
    /\ InitBase(Unidades, DiscoVacioE)
    /\ unidades_previas = detectar_unidades_disponibles
    /\ llamada = SinLlamada

SpecEntrada == InitEntrada /\ [][NextContenido]_vars

\* Scheduling of the indexing: an indexer thread that can take a step is
\* eventually run, the event loop eventually delivers a queued completion
\* signal and the tick of timer_usb, and seleccionar_unidad, once started,
\* runs to its end (the join returns or times out). The user is under no
\* obligation to select anything.
JusticiaIndexacion ==
    /\ \A t \in 1..MaxHilos : WF_vars(Indexador(t))
    /\ WF_vars(on_indexacion_completa)
    /\ WF_vars(verificar_cambios_usb)
    /\ WF_vars(SelJoinTermina \/ SelJoinTimeout)
    /\ WF_vars(SelLimpiar)
    /\ WF_vars(SelArrancar)

SpecSeleccionJusta == SpecSeleccion /\ JusticiaIndexacion

\* Pruning: volume D holds a "$" directory that is not in the list at its
\* root, a listed directory one level down, and a directory below the
\* listed one; both volumes stay plugged in and the user only selects.
N_dolar == <<"$","x">>
N_Recovery == <<"R","e","c","o","v","e","r","y">>

ArbolPodaD ==
    (<<>> :> [dirs |-> <<N_dolar, N_docs>>, files |-> <<N_ReportPDF>>])
    @@ (<<N_dolar>> :> [dirs |-> <<>>, files |-> <<N_imagejpg>>])
    @@ (<<N_docs>> :> [dirs |-> <<N_Recovery>>, files |-> <<N_reporttxt>>])
    @@ (<<N_docs, N_Recovery>> :> [dirs |-> <<N_docs>>, files |-> <<N_notas>>])
    @@ (<<N_docs, N_Recovery, N_docs>> :>
            [dirs |-> <<>>, files |-> <<N_imagejpg>>])

DiscoPoda == [l \in Unidades |-> IF l = "D" THEN ArbolPodaD ELSE ArbolE]

InitPoda == InitCon(Unidades, DiscoPoda)

SpecPoda == InitPoda /\ [][NextSeleccion]_vars

\* Extension of the registry: a program registers readers with the default
\* position only, and asks the factory for the reader of a file.
NombresExtension ==
    NombresLectura \cup { <<"a",".","e","p","u","b">>,
                          <<"a",".","E","P","U","B">> }

\* LectorFactory.registrar_lector(lector)
llamar_registrar_por_defecto ==
    /\ llamada.pc = "registro"
    /\ Len(llamada.registro) < Len(lectores) + MaxRegistros
    /\ \E l \in LectoresRegistrables :
          llamada' = [llamada EXCEPT
                         !.registro = registrar_lector(@, l, -1)]
    /\ objeto' = Intactos
    /\ UNCHANGED <<unidad_seleccionada, resultados, todos_los_archivos,
                   indice_nombres, indice_extensiones, unidades_previas,
                   tipo_busqueda, buscando_contenido, indexando,
                   thread_indexacion_activo, cancelar_indexacion,
                   lock_indexacion, botones, search_input, btn_buscar,
                   results_list, timer_autocompletar, diferidos, alerta, ui,
                   cola, hilos, buscador, montadas, disco, gestor>>

\* lector = LectorFactory.crear_lector(ruta)
llamar_crear_lector_en ==
    /\ llamada.pc = "registro"
    /\ \E n \in NombresExtension :
          llamada' = [llamada EXCEPT
                         !.pc = "creado",
                         !.archivo = [@ EXCEPT !.nombre = n],
                         !.lector = crear_lector_en(llamada.registro, n)]
    /\ objeto' = Intactos
    /\ UNCHANGED <<unidad_seleccionada, resultados, todos_los_archivos,
                   indice_nombres, indice_extensiones, unidades_previas,
                   tipo_busqueda, buscando_contenido, indexando,
                   thread_indexacion_activo, cancelar_indexacion,
                   lock_indexacion, botones, search_input, btn_buscar,
                   results_list, timer_autocompletar, diferidos, alerta, ui,
                   cola, hilos, buscador, montadas, disco, gestor>>

NextExtension ==
    \/ llamar_registrar_por_defecto
    \/ llamar_crear_lector_en

SpecExtension == InitRegistro /\ [][NextExtension]_vars

\* Opening a result on its own: a result set of up to three records of one
\* volume is displayed, among them files of the same name in two
\* directories, and the user activates any row of the list.
ArchivosAbrir ==
    {ArchivoDict("D", d, n) : d \in {<<>>, <<N_docs>>},
                              n \in {N_reporttxt, N_notas}}

ListasAbrir ==
    {l \in UNION {[1..k -> ArchivosAbrir] : k \in 0..MaxArchivos} :
        \A i, j \in 1..Len(l) : l[i] = l[j] => i = j}

InitAbrir ==
    /\ InitBase(Unidades, DiscoFijo)
    /\ unidades_previas = {}
    /\ \E l \in ListasAbrir :
          llamada = [SinLlamada EXCEPT !.pc = "mostrado", !.archivos = l]

\* itemDoubleClicked on row fila of the list
llamar_abrir_item(fila) ==
    /\ llamada.pc = "mostrado"
    /\ fila \in 1..Len(Filas(llamada.archivos))
    /\ llamada' = [llamada EXCEPT
                      !.pc = "abierto",
                      !.fila = fila,
                      !.abierto = abrir_item(llamada.archivos,
                                             Filas(llamada.archivos)[fila])]
    /\ objeto' = Intactos
    /\ UNCHANGED <<unidad_seleccionada, resultados, todos_los_archivos,
                   indice_nombres, indice_extensiones, unidades_previas,
                   tipo_busqueda, buscando_contenido, indexando,
                   thread_indexacion_activo, cancelar_indexacion,
                   lock_indexacion, botones, search_input, btn_buscar,
                   results_list, timer_autocompletar, diferidos, alerta, ui,
                   cola, hilos, buscador, montadas, disco, gestor>>

NextAbrir == \E fila \in 1..(Len(FilasDeCabecera) + MaxArchivos) :
                 llamar_abrir_item(fila)

SpecAbrir == InitAbrir /\ [][NextAbrir]_vars

-----------------------------------------------------------------------------
(* Properties *)

\* the two index keys of a record, from its file name
ClaveNombre(archivo) == Lower(SplitExt(archivo.nombre)[1])

ClaveExtension(archivo) == Lower(SplitExt(archivo.nombre)[2])

\* the records of a complete walk of a tree: a directory's files in listing
\* order, then its sub-directories in listing order, each with everything
\* below it; ignored and "$" directories are not entered
RECURSIVE RecorridoCompleto(_, _, _)
RecorridoCompleto(arbol, raiz, pendientes) ==
    IF pendientes = <<>> THEN <<>>
    ELSE LET dir == Head(pendientes)
             nodo == arbol[dir]
             entran == SelectSeq(nodo.dirs,
                           LAMBDA d : d \notin DIRS_IGNORAR /\ d[1] # "$")
         IN  [i \in 1..Len(nodo.files) |->
                 [nombre    |-> nodo.files[i],
                  ruta      |-> [unidad |-> raiz, dir |-> dir,
                                 nombre |-> nodo.files[i]],
                  extension |-> Lower(SplitExt(nodo.files[i])[2])]]
             \o RecorridoCompleto(arbol, raiz,
                    [i \in 1..Len(entran) |-> Append(dir, entran[i])]
                    \o Tail(pendientes))

\* the index of a list of records by a key: under each key, the positions
\* (from 0) of the records that have it, ascending
IndicePor(archivos, Clave(_)) ==
    IF archivos = <<>> THEN DictVacio
    ELSE [k \in {Clave(archivos[i]) : i \in 1..Len(archivos)} |->
             Sorted({i - 1 : i \in {j \in 1..Len(archivos) :
                                         Clave(archivos[j]) = k}})]

\* the three shared structures
Compartido ==
    [archivos    |-> todos_los_archivos,
     nombres     |-> indice_nombres,
     extensiones |-> indice_extensiones]

GeneracionVacia ==
    [archivos |-> <<>>, nombres |-> DictVacio, extensiones |-> DictVacio]

\* the complete generation of volume v
GeneracionCompleta(v) ==
    LET archivos == RecorridoCompleto(disco[v], v, << <<>> >>)
    IN  [archivos    |-> archivos,
         nombres     |-> IndicePor(archivos, ClaveNombre),
         extensiones |-> IndicePor(archivos, ClaveExtension)]

\* C1: while a volume is selected and nobody holds the publication lock, the
\* shared state is empty or is the complete generation of the selected
\* volume; it never holds what the indexer of a previously selected volume
\* produced, whether or not that indexer ended within the 2-second join.
C1_SoloLaUnidadSeleccionada ==
    (unidad_seleccionada # None /\ lock_indexacion = 0)
        => Compartido \in {GeneracionVacia,
                           GeneracionCompleta(unidad_seleccionada)}

\* C2: a reader that holds positions taken from an index finds, at each of
\* them, a record of todos_los_archivos whose key is the one that matched:
\* readers never see the file list of one generation with the index of
\* another.
C2_LectorVeUnaGeneracion ==
    /\ ui.pc = "leer_nombre" =>
          \A p \in Rango(ui.indices) :
              /\ p < Len(todos_los_archivos)
              /\ Contiene(ui.texto, ClaveNombre(todos_los_archivos[p + 1]))
    /\ ui.pc = "leer_extension" =>
          \A p \in Rango(ui.indices) :
              /\ p < Len(todos_los_archivos)
              /\ ClaveExtension(todos_los_archivos[p + 1])
                    = (IF StartsWith(ui.texto, ".") THEN ui.texto
                       ELSE <<".">> \o ui.texto)

\* C3: at most one indexer thread is alive at any time.
C3_UnSoloIndexador == Cardinality(Vivos) <= 1

\* C4: an indexer that has been told to cancel neither starts to publish its
\* generation nor emits indexacion_completa afterwards.
C4_CanceladoNoPublica ==
    [][\A t \in 1..MaxHilos :
          hilos[t].avisado =>
              /\ ~(hilos[t].pc = "pub1" /\ hilos'[t].pc = "pub2")
              /\ ~(hilos[t].pc = "emitir" /\ Len(cola') > Len(cola))]_vars

\* C5: while no volume is selected, the file list and both indexes are
\* empty; in particular they stay empty after the poll has found the
\* selected volume gone, whatever the indexer had reached by then.
C5_SinUnidadTodoVacio ==
    unidad_seleccionada = None => Compartido = GeneracionVacia

\* C6: the selection is dropped only when the selected volume is no longer
\* plugged in.
C6_SoloSeDeseleccionaLoRetirado ==
    [][(unidad_seleccionada # None /\ unidad_seleccionada' = None)
          => unidad_seleccionada \notin montadas]_vars

\* every record is referenced once, under the key of its stem and under no
\* other key of nombres, and once, under the key of its extension and under
\* no other key of extensiones
UnaClavePorRegistro(archivos, nombres, extensiones) ==
    \A i \in 1..Len(archivos) :
        /\ {k \in DOMAIN nombres : (i - 1) \in Rango(nombres[k])}
              = {ClaveNombre(archivos[i])}
        /\ {k \in DOMAIN extensiones : (i - 1) \in Rango(extensiones[k])}
              = {ClaveExtension(archivos[i])}
        /\ \A k \in DOMAIN nombres :
              Cardinality({j \in 1..Len(nombres[k]) : nombres[k][j] = i - 1}) <= 1
        /\ \A k \in DOMAIN extensiones :
              Cardinality({j \in 1..Len(extensiones[k]) :
                              extensiones[k][j] = i - 1}) <= 1

\* an indexer that has passed the last look at the flag: what it holds is
\* the generation it publishes
Publica(t) == hilos[t].pc \in {"pub1", "pub2", "pub3"}

\* C7: in every generation an indexer publishes, each record is under
\* exactly one key of the name index, its lowercased stem, and under exactly
\* one key of the extension index, its lowercased extension (the empty
\* string when it has none).
C7_UnaClavePorRegistro ==
    \A t \in 1..MaxHilos :
        Publica(t) => UnaClavePorRegistro(hilos[t].archivos_temp,
                                          hilos[t].indices_nombres_temp,
                                          hilos[t].indices_ext_temp)

\* C7, witness: a generation about to be published in which two records
\* with different extensions share one stem key
C7_Testigo ==
    \E t \in 1..MaxHilos :
        /\ hilos[t].pc = "pub1"
        /\ \E k \in DOMAIN hilos[t].indices_nombres_temp :
              Len(hilos[t].indices_nombres_temp[k]) = 2
        /\ Cardinality(DOMAIN hilos[t].indices_ext_temp) = 2

\* number of references held by an index
RECURSIVE Referencias(_)
Referencias(d) ==
    IF DOMAIN d = {} THEN 0
    ELSE LET k == CHOOSE x \in DOMAIN d : TRUE
         IN  Len(d[k]) + Referencias([x \in DOMAIN d \ {k} |-> d[x]])

\* C8: the Browse list is the whole file collection of the volume in walk
\* order, as long as the file count, and each index of a published
\* generation holds as many references as there are records.  The rows of
\* the widget are compared once seleccionar_unidad, which empties the
\* collection before it rewrites the widget, has returned.
C8_NavegacionCompleta ==
    /\ \A t \in 1..MaxHilos :
          Publica(t) =>
              /\ Referencias(hilos[t].indices_nombres_temp)
                    = Len(hilos[t].archivos_temp)
              /\ Referencias(hilos[t].indices_ext_temp)
                    = Len(hilos[t].archivos_temp)
    /\ (results_list.modo = "todos" /\ ui.pc # "sel_start") =>
          /\ resultados = todos_los_archivos
          /\ resultados = RecorridoCompleto(disco[resultados[1].ruta.unidad],
                                            resultados[1].ruta.unidad,
                                            << <<>> >>)
          /\ Referencias(indice_nombres) = Len(resultados)
          /\ Referencias(indice_extensiones) = Len(resultados)

\* C8, witness: Browse shows a root file and then the file of docs, the
\* recycle bin having been skipped
C8_Testigo ==
    /\ results_list.modo = "todos"
    /\ Len(resultados) = 2
    /\ resultados[1].ruta.dir = <<>>
    /\ resultados[2].ruta.dir = <<N_docs>>

\* the class of a text by its first character that is not a blank
ClaseEsperada(t) ==
    LET visibles == {i \in 1..Len(t) : ~EsBlanco(t[i])}
    IN  IF visibles = {} THEN BUSQUEDA_NOMBRE
        ELSE LET c == t[CHOOSE i \in visibles : \A j \in visibles : i <= j]
             IN  IF c = "@" THEN BUSQUEDA_CONTENIDO
                 ELSE IF c = "." THEN BUSQUEDA_EXTENSION
                 ELSE BUSQUEDA_NOMBRE

EnBlanco(t) == \A i \in 1..Len(t) : EsBlanco(t[i])

\* C9: a text change that is classified gives the class of the first
\* non-blank character ("@" content, "." extension, name otherwise and for a
\* blank text); a blank text never reaches the name scan or the extension
\* look-up, and the deferred search that finds the text blank shows Browse.
C9_Clasificacion ==
    [][/\ (search_input'.text # search_input.text
             /\ ~indexando /\ ~buscando_contenido)
          => tipo_busqueda' = ClaseEsperada(search_input'.text)
       /\ ui'.pc \in {"leer_nombre", "leer_extension"}
          => (~EnBlanco(search_input'.text) /\ ui'.texto # <<>>)
       /\ results_list'.modo \in {"nombre", "extension"}
          => results_list'.texto # <<>>
       /\ (timer_autocompletar /\ ~timer_autocompletar'
             /\ search_input' = search_input
             /\ EnBlanco(search_input.text)
             /\ ~indexando /\ ~buscando_contenido
             /\ unidad_seleccionada # None)
          => /\ ui'.pc = "idle"
             /\ resultados' = todos_los_archivos
             /\ results_list'.modo \in {"todos", "no_hay_archivos"}]_vars

\* C9, witness: a content query typed with a blank in front of the "@"
C9_Testigo ==
    /\ search_input.text = <<" ", "@">>
    /\ tipo_busqueda = BUSQUEDA_CONTENIDO

ExtensionPedida(e) == IF e # <<>> /\ e[1] = "." THEN e ELSE <<".">> \o e

\* C11: the list of an extension search holds exactly the records whose
\* extension is the lowercased query with a "." put in front when it has
\* none, in collection order (no record when none has it); a query without
\* the dot and the same query with it give the same records.
C11_BusquedaPorExtension ==
    /\ results_list.modo = "extension" =>
          LET q == results_list.texto
          IN  /\ q = Lower(q)
              /\ resultados =
                    SelectSeq(todos_los_archivos,
                              LAMBDA a : ClaveExtension(a) = ExtensionPedida(q))
    /\ \A t \in TextosTecleo :
          LET e == Lower(t)
          IN  CoincidenciasExtension(IndicesPorExtension(e), todos_los_archivos)
                = CoincidenciasExtension(IndicesPorExtension(<<".">> \o e),
                                         todos_los_archivos)
              \/ (e # <<>> /\ e[1] = ".")

\* C11, witness: the query "P" run as an extension search (the mode of an
\* earlier ".r" was kept while the unit was indexed) lists R.P
C11_Testigo ==
    /\ results_list.modo = "extension"
    /\ results_list.texto = <<"p">>
    /\ Len(resultados) = 1
    /\ resultados[1].nombre = N_RP

\* a text that is the sigil and blanks only
SoloSigilo(t) ==
    LET limpio == Strip(t)
    IN  /\ StartsWith(limpio, "@")
        /\ Strip(Tail(limpio)) = <<>>

ContenidoLegible(nombre) ==
    IF nombre \in {N_reporttxt, N_ReportPDF, N_rpy} THEN Lower(TextoDe(nombre))
    ELSE <<>>

\* C13: the list of a content search on a generation that did not change
\* holds exactly the records of the whole collection whose readable,
\* lowercased content contains the lowercased query (the text after the
\* "@", trimmed), in collection order; a file that cannot be decoded is
\* left out and the files after it are still scanned.
C13_BusquedaPorContenido ==
    results_list.modo = "contenido" =>
        LET q == results_list.texto
        IN  /\ q # <<>>
            /\ resultados =
                  SelectSeq(todos_los_archivos,
                            LAMBDA a : Contiene(Lower(q),
                                                ContenidoLegible(a.nombre)))

\* C13, witness: the query "o" lists Report.PDF and report.txt, the file
\* roto.pdf between them having given nothing
C13_Testigo ==
    /\ results_list.modo = "contenido"
    /\ results_list.texto = <<"o">>
    /\ Len(todos_los_archivos) = 3
    /\ todos_los_archivos[2].nombre = N_rotopdf
    /\ Len(resultados) = 2
    /\ resultados[1].nombre = N_ReportPDF
    /\ resultados[2].nombre = N_reporttxt

\* C14: at most one content-search thread runs: a thread is started only
\* when none is running and buscando_contenido is False, a running thread
\* or an undelivered completion always has buscando_contenido True, and a
\* submission made while buscando_contenido is True starts no thread, queues
\* nothing and changes nothing but the timer that fired.
C14_UnaSolaBusqueda ==
    [][/\ (buscador'.pc = "inicio" /\ buscador.pc # "inicio")
          => (buscador = BuscadorLibre /\ ~buscando_contenido
                /\ buscando_contenido'
                /\ \A i \in 1..Len(cola) : cola[i].senal # "busqueda_finalizada")
       /\ (buscador'.pc # "libre"
             \/ \E i \in 1..Len(cola') : cola'[i].senal = "busqueda_finalizada")
          => buscando_contenido'
       /\ (buscando_contenido /\ ui'.pc = "idle"
             /\ (buscar_archivos \/ timer_dispara))
          => UNCHANGED <<buscador, cola, buscando_contenido, alerta,
                         resultados, results_list, search_input, btn_buscar>>
      ]_vars

\* C14, witness: the timer armed by a name query is still pending while the
\* content search started with Enter is scanning, so that its firing is a
\* submission made during the search
C14_Testigo ==
    /\ buscando_contenido
    /\ buscador.pc = "scan"
    /\ timer_autocompletar
    /\ ui.pc = "idle"
    /\ ~indexando
    /\ unidad_seleccionada # None

\* C15: every content search that was started ends: the thread leaves by
\* queueing exactly one completion signal, and buscando_contenido True leads
\* to a state where it is False and the input and the button are enabled.
C15_BusquedaTermina ==
    /\ [][(buscador.pc # "libre" /\ buscador'.pc = "libre")
            => (/\ Len(cola') = Len(cola) + 1
                /\ cola'[Len(cola')].senal = "busqueda_finalizada"
                /\ SubSeq(cola', 1, Len(cola)) = cola)]_vars
    /\ buscando_contenido
          ~> (~buscando_contenido /\ search_input.enabled /\ btn_buscar)

\* C15, witness: a content search has been delivered and the controls are
\* enabled again
C15_Testigo ==
    /\ results_list.modo = "contenido"
    /\ ~buscando_contenido
    /\ buscador = BuscadorLibre
    /\ search_input.enabled
    /\ btn_buscar

\* C16: every change of the text to a name or extension query (not blank,
\* not starting with "@") leaves the single-shot timer armed, so that the
\* query is run when the timer fires.
C16_CadaCambioRearma ==
    [][(search_input'.text # search_input.text
          /\ ~EnBlanco(search_input'.text)
          /\ ClaseEsperada(search_input'.text) # BUSQUEDA_CONTENIDO)
       => timer_autocompletar']_vars

\* C17: a change of the text to a content query never starts the debounce
\* timer; whenever buscando_contenido is True the query input and the search
\* button are disabled; and a content thread exists only while
\* buscando_contenido is True, so that a second scan never runs beside the
\* first.
C17_ContenidoSinTemporizador ==
    /\ [](buscando_contenido => (~search_input.enabled /\ ~btn_buscar))
    /\ [](buscador.pc # "libre" => buscando_contenido)
    /\ [][(search_input'.text # search_input.text
             /\ ClaseEsperada(search_input'.text) = BUSQUEDA_CONTENIDO)
          => timer_autocompletar' = timer_autocompletar]_vars

\* C17, witness: a content query was typed with no timer pending, and its
\* search runs with the input and the button disabled
C17_Testigo ==
    /\ ClaseEsperada(search_input.text) = BUSQUEDA_CONTENIDO
    /\ ~timer_autocompletar
    /\ buscando_contenido
    /\ buscador.pc = "scan"
    /\ ~search_input.enabled
    /\ ~btn_buscar

\* C18: when the completion signal ends the indexing (indexando goes from
\* True to False on the delivery of indexacion_completa, a volume being
\* selected), the shared state is the complete generation of the selected
\* volume and no indexer thread is running any more.
C18_CompletaLaSeleccionActual ==
    [][(indexando /\ ~indexando'
          /\ cola # <<>> /\ cola' = Tail(cola)
          /\ Head(cola).senal = "indexacion_completa"
          /\ unidad_seleccionada' # None)
       => (/\ Compartido' = GeneracionCompleta(unidad_seleccionada)
           /\ \A t \in 1..MaxHilos : hilos'[t].pc = "libre")]_vars

\* the lowercased extension of a file on disk
ExtensionDe(archivo) == Lower(SplitExt(archivo.nombre)[2])

ExtensionesDeDocumento ==
    { <<".","p","d","f">>, <<".","d","o","c","x">>, <<".","x","l","s","x">>,
      <<".","x","l","s">>, <<".","p","p","t","x">> }

\* a file whose reading fails: a text file that cannot be opened or read, a
\* document that cannot be opened, read or parsed or whose library is
\* missing
LecturaFalla(archivo) ==
    \/ /\ ExtensionDe(archivo) \in EXTENSIONES_TEXTO
       /\ archivo.estado \in {"sin_acceso", "memoria"}
    \/ /\ ExtensionDe(archivo) \in ExtensionesDeDocumento
       /\ archivo.estado # "ok"

\* C19: leer_contenido_archivo never raises: it returns the empty string
\* when the reading fails and for a file without a reader, and otherwise the
\* lowercased text of the file (the decoded bytes of a text file, the text
\* of every part of a document).
C19_LeerNuncaLanza ==
    llamada.pc = "leido" =>
        LET a == llamada.archivo
            r == llamada.resultado
        IN  /\ r.excepcion = ""
            /\ r.valor = Lower(r.valor)
            /\ LecturaFalla(a) => r.valor = <<>>
            /\ (~LecturaFalla(a) /\ ExtensionDe(a) \in EXTENSIONES_TEXTO)
                  => r.valor = Lower(a.bytes)
            /\ (~LecturaFalla(a) /\ ExtensionDe(a) \in ExtensionesDeDocumento)
                  => /\ \A i \in 1..Len(a.partes) :
                           Contiene(Lower(a.partes[i]), r.valor)
                     /\ ExtensionDe(a) = <<".","p","d","f">>
                           => r.valor = Lower(a.bytes)
            /\ ExtensionDe(a) \notin EXTENSIONES_TEXTO \cup ExtensionesDeDocumento
                  => r.valor = <<>>

\* C19, witness: read() raised MemoryError on a text file, which the reader
\* does not catch, and the call returned the empty string
C19_Testigo ==
    /\ llamada.pc = "leido"
    /\ llamada.archivo.nombre = <<"a",".","T","X","T">>
    /\ llamada.archivo.estado = "memoria"
    /\ llamada.archivo.bytes # <<>>
    /\ llamada.resultado = Devuelve(<<>>)

\* the reader expected for a lowercased extension
LectorEsperado(extension) ==
    IF extension \in EXTENSIONES_TEXTO THEN "LectorTexto"
    ELSE IF extension = <<".","p","d","f">> THEN "LectorPDF"
    ELSE IF extension = <<".","d","o","c","x">> THEN "LectorDOCX"
    ELSE IF extension \in {<<".","x","l","s","x">>, <<".","x","l","s">>}
    THEN "LectorXLSX"
    ELSE IF extension = <<".","p","p","t","x">> THEN "LectorPPTX"
    ELSE "LectorGenerico"

\* C20: crear_lector always returns a reader of the registry, the first in
\* registry order whose puede_leer accepts the lowercased extension of the
\* path: LectorTexto for the text extensions, LectorPDF for .pdf, LectorDOCX
\* for .docx, LectorXLSX for .xlsx and .xls, LectorPPTX for .pptx and
\* LectorGenerico for every other extension and for none, whatever the case
\* of the letters.
C20_CrearLector ==
    llamada.pc = "creado" =>
        LET extension == ExtensionDe(llamada.archivo)
            posiciones == {i \in 1..Len(lectores) : lectores[i] = llamada.lector}
        IN  /\ posiciones # {}
            /\ llamada.lector = LectorEsperado(extension)
            /\ \E i \in posiciones :
                  /\ puede_leer(lectores[i], extension)
                  /\ \A j \in 1..(i - 1) : ~puede_leer(lectores[j], extension)

\* C20, witness: a text extension written in capitals gets LectorTexto
C20_Testigo ==
    /\ llamada.pc = "creado"
    /\ llamada.archivo.nombre = <<"a",".","T","X","T">>
    /\ llamada.lector = "LectorTexto"

\* the lowercase extensions the registered readers are asked about
ExtensionesPreguntadas ==
    {e \in ExtensionesLectura : Lower(e) = e} \cup {<<".","e","p","u","b">>}

\* a reader that accepts every extension is the fallback
EsFallback(lector) == puede_leer(lector, <<".","t","e","s","t">>)

\* C21: once obtener_extensiones_soportadas has returned, a lowercase
\* extension is in the returned set if and only if some registered reader
\* that is not a fallback accepts it.
C21_ExtensionesSoportadas ==
    llamada.pc = "extensiones" =>
        \A e \in ExtensionesPreguntadas :
            e \in llamada.extensiones
            <=> \E i \in 1..Len(llamada.registro) :
                    /\ ~EsFallback(llamada.registro[i])
                    /\ puede_leer(llamada.registro[i], e)

\* what the indexer t holds is short of a complete walk of its root: part of
\* the tree could not be listed
RecorridoTruncado(t) ==
    /\ hilos[t].pc \in {"pub1", "pub2", "pub3", "emitir"}
    /\ hilos[t].archivos_temp
           # RecorridoCompleto(disco[hilos[t].raiz], hilos[t].raiz, << <<>> >>)

\* C22: an indexer whose walk lost its root part-way, and so holds less than
\* the complete walk, neither publishes its collection to the shared state
\* nor emits indexacion_completa.
C22_RaizPerdidaNoPublica ==
    [][\A t \in 1..MaxHilos :
          RecorridoTruncado(t) =>
              /\ ~(hilos[t].pc = "pub1" /\ hilos'[t].pc = "pub2")
              /\ ~(hilos[t].pc = "emitir" /\ Len(cola') > Len(cola))]_vars

\* the step in which indexer t ends on an exception escaping the walk
TerminaPorExcepcion(t) ==
    /\ hilos[t].pc = "abrir"
    /\ WalkLanza
    /\ hilos'[t].pc = "libre"

\* C23: an indexer that ends on an exception escaping the walk reports it to
\* the UI thread with a queued signal, and does not write the orchestrator's
\* fields itself.
C23_FalloSenalado ==
    [][\A t \in 1..MaxHilos :
          TerminaPorExcepcion(t) =>
              /\ Len(cola') > Len(cola)
              /\ indexando' = indexando]_vars

\* the generation indexer t holds
GeneracionDe(t) ==
    [archivos    |-> hilos[t].archivos_temp,
     nombres     |-> hilos[t].indices_nombres_temp,
     extensiones |-> hilos[t].indices_ext_temp]

\* C24: with the trees unchanged, every run of the indexer over a root ends
\* with the generation that is a function of the tree alone, so two runs over
\* the same root hold the same set of records and the same two index
\* mappings, whatever ran or was published before.
C24_MismaGeneracion ==
    \A t \in 1..MaxHilos :
        Publica(t) =>
            /\ GeneracionDe(t) = GeneracionCompleta(hilos[t].raiz)
            /\ \A u \in 1..MaxHilos :
                  (Publica(u) /\ hilos[u].raiz = hilos[t].raiz) =>
                      /\ Rango(hilos[u].archivos_temp)
                             = Rango(hilos[t].archivos_temp)
                      /\ hilos[u].indices_nombres_temp
                             = hilos[t].indices_nombres_temp
                      /\ hilos[u].indices_ext_temp = hilos[t].indices_ext_temp

\* C24, witness: a second run over D is about to publish while the
\* generation of the previous run over D is the published one
C24_Testigo ==
    \E t \in 1..MaxHilos :
        /\ hilos[t].pc = "pub1"
        /\ hilos[t].raiz = "D"
        /\ todos_los_archivos # <<>>
        /\ Compartido = GeneracionDe(t)

\* the volume whose files the content search is scanning is no longer the
\* selected one: it was removed and the selection dropped, or another volume
\* was selected
BusquedaSuperada ==
    /\ buscador.pc = "scan"
    /\ unidad_seleccionada # Head(buscador.lista).ruta.unidad

\* C25: once the volume being scanned is no longer the selected one, the
\* content-search thread reads no further file of the old list.
C25_BusquedaCancelable ==
    [][BusquedaSuperada => ~(Len(buscador'.lista) < Len(buscador.lista)
                             /\ buscador'.pc \in {"scan", "emitir"})]_vars

\* C26: whenever the content of todos_los_archivos, indice_nombres or
\* indice_extensiones changes, the field has been bound to another object;
\* the object that was bound to it, which readers may hold, is left as it
\* was.
C26_NuncaMutadaEnSitio ==
    [][/\ todos_los_archivos' # todos_los_archivos
            => objeto'.archivos = "otro"
       /\ indice_nombres' # indice_nombres
            => objeto'.nombres = "otro"
       /\ indice_extensiones' # indice_extensiones
            => objeto'.extensiones = "otro"]_vars

\* the entries an agregar call dropped from the history
Desalojados ==
    Rango(gestor.historial)
        \ (Rango(gestor'.historial) \cup {Strip(gestor'.termino)})

\* C27: the history never holds more than MAX_BUSQUEDAS entries; an agregar
\* that drops an entry to stay within the cap drops the least recently added
\* one and keeps the term just added.
C27_DesalojaLaMasAntigua ==
    [][/\ Len(gestor'.historial) <= MAX_BUSQUEDAS
       /\ (gestor'.llamada = "agregar" /\ Desalojados # {})
            => /\ Desalojados = {Head(gestor.orden)}
               /\ Strip(gestor'.termino) \in Rango(gestor'.historial)]_vars

\* a list sorted case-insensitively: no entry has a smaller lowercased form
\* than an entry before it
Ordenada(lista) ==
    \A i, j \in 1..Len(lista) :
        i < j => ~Menor(Lower(lista[j]), Lower(lista[i]))

SinRepetidos(lista) ==
    \A i, j \in 1..Len(lista) : lista[i] = lista[j] => i = j

\* C28: the history holds no term twice and is sorted case-insensitively;
\* obtener_todos returns it as it is, and buscar_coincidencias returns the
\* entries that contain the text, in the order they have in the history.
C28_HistorialOrdenado ==
    /\ SinRepetidos(gestor.historial)
    /\ Ordenada(gestor.historial)
    /\ gestor.llamada = "obtener_todos"
          => gestor.resultado = gestor.historial
    /\ gestor.llamada = "buscar_coincidencias"
          => gestor.resultado =
                SelectSeq(gestor.historial,
                    LAMBDA t : Contiene(Lower(gestor.termino), Lower(t)))

\* C28, witness: a search for "B" in a history of three entries returns the
\* two that differ only in case, after "a"
C28_Testigo ==
    /\ gestor.llamada = "buscar_coincidencias"
    /\ gestor.termino = <<"B">>
    /\ Len(gestor.historial) = 3
    /\ Len(gestor.resultado) = 2
    /\ gestor.resultado[1] # gestor.resultado[2]
    /\ gestor.historial[1] = <<"a">>

\* the files of a list, as a set
Encontrados(lista) == Rango(lista)

EntradaSinUnidad ==
    /\ Strip(search_input.text) # <<>>
    /\ unidad_seleccionada = None

\* a content search is asked for with no unit selected or no indexed file
ContenidoSinUnidadOSinArchivos ==
    /\ Strip(search_input.text) # <<>>
    /\ tipo_busqueda = BUSQUEDA_CONTENIDO
    /\ ~buscando_contenido
    /\ \/ unidad_seleccionada = None
       \/ todos_los_archivos = <<>>

\* the step started no thread and left the flag, the shared generation and
\* what is displayed as they were
SinOperacion ==
    /\ buscador' = buscador
    /\ hilos' = hilos
    /\ ~buscando_contenido'
    /\ Compartido' = Compartido
    /\ resultados' = resultados
    /\ results_list' = results_list

\* C30: an explicit search with no unit selected, and a content search
\* dispatched with no unit selected or no indexed file, open an alert, start
\* no thread, leave buscando_contenido False and leave the shared generation
\* and the displayed results unchanged.
C30_ErrorDeEntrada ==
    [][(/\ ui'.pc = "idle"
        /\ \/ EntradaSinUnidad /\ buscar_archivos
           \/ ContenidoSinUnidadOSinArchivos
                /\ (buscar_archivos \/ timer_dispara))
          => (alerta' # "" /\ SinOperacion)]_vars

\* the orchestrator is Ready on volume u with the complete generation of u
Listo(u) ==
    /\ ~indexando
    /\ unidad_seleccionada = u
    /\ Compartido = GeneracionCompleta(u)

\* C31: once a volume is selected and being indexed, and as long as the user
\* starts no other selection (both volumes stay plugged in throughout), the
\* program eventually is Ready on that volume with its complete generation
\* published, whatever ticks of the poll happen in between.
C31_IndexacionCompleta ==
    \A u \in Unidades :
        (unidad_seleccionada = u /\ indexando /\ ui.pc = "idle")
            ~> (Listo(u) \/ ui.pc # "idle")

\* C32: when seleccionar_unidad returns, todos_los_archivos, both indexes and
\* resultados are empty, cancelar_indexacion is False, indexando is True and
\* unidad_seleccionada is the chosen unit: nothing of the volume selected
\* before can be read.
C32_SeleccionReemplaza ==
    [][(ui.pc = "sel_start" /\ ui'.pc = "idle")
          => (/\ todos_los_archivos' = <<>>
              /\ indice_nombres' = DictVacio
              /\ indice_extensiones' = DictVacio
              /\ resultados' = <<>>
              /\ ~cancelar_indexacion'
              /\ indexando'
              /\ unidad_seleccionada' = ui.unidad.ruta)]_vars

\* the names of the directories a record's path passes through
Atravesados(archivo) ==
    {archivo.ruta.dir[k] : k \in 1..Len(archivo.ruta.dir)}

\* C33: no published record has a path that passes through a directory whose
\* name is in DIRS_IGNORAR or begins with "$", at any depth below the root of
\* the volume.
C33_RecorridoPodado ==
    \A i \in 1..Len(todos_los_archivos) :
        \A d \in Atravesados(todos_los_archivos[i]) :
            d \notin DIRS_IGNORAR /\ Head(d) # "$"

\* C33, witness: the walk of D is published, with the file of docs, which
\* lies next to the listed directory and after the "$" directory
C33_Testigo ==
    /\ unidad_seleccionada = "D"
    /\ ~indexando
    /\ Len(todos_los_archivos) = 2
    /\ \E i \in 1..Len(todos_los_archivos) :
           todos_los_archivos[i].ruta.dir = <<N_docs>>

\* the readers registered after the six of the class body
Registrados == Len(lectores)..(Len(llamada.registro) - 1)

\* C34: after any sequence of registrations with the default position,
\* LectorGenerico is still the last entry of the registry, the five readers
\* of the class body are still its first entries in their order and every
\* registered reader lies between them and LectorGenerico; crear_lector
\* returns a registered reader for every extension it accepts that no reader
\* before it accepts.
C34_RegistroExtensible ==
    LET registro == llamada.registro
        extension == Lower(SplitExt(llamada.archivo.nombre)[2])
    IN  /\ registro[Len(registro)] = "LectorGenerico"
        /\ SubSeq(registro, 1, Len(lectores) - 1)
               = SubSeq(lectores, 1, Len(lectores) - 1)
        /\ llamada.pc = "creado" =>
               \A i \in Registrados :
                   (/\ puede_leer(registro[i], extension)
                    /\ \A j \in 1..(i - 1) :
                           ~puede_leer(registro[j], extension))
                       => llamada.lector = registro[i]

\* C34, witness: with the EPUB reader registered after another reader, the
\* factory returns it for a file named with an uppercase .EPUB
C34_Testigo ==
    /\ llamada.pc = "creado"
    /\ Len(llamada.registro) = Len(lectores) + 2
    /\ llamada.registro[Len(lectores) + 1] = "LectorEPUB"
    /\ llamada.archivo.nombre = <<"a",".","E","P","U","B">>
    /\ llamada.lector = "LectorEPUB"

\* C35: agregar strips the term; a blank term returns False and leaves the
\* history as it was; any other term is in the history afterwards in its
\* stripped form, and when it was there already the history holds the same
\* set of entries as before, so that adding twice equals adding once.
C35_AgregarIdempotente ==
    [][gestor'.llamada = "agregar" =>
          LET t == Strip(gestor'.termino)
          IN  /\ t = <<>> => /\ ~gestor'.devuelve
                             /\ gestor'.historial = gestor.historial
              /\ t # <<>> => t \in Rango(gestor'.historial)
              /\ (t # <<>> /\ t \in Rango(gestor.historial))
                    => Rango(gestor'.historial) = Rango(gestor.historial)
              /\ gestor'.termino # t
                    => gestor'.termino \notin Rango(gestor'.historial)]_vars

\* C35, witness: " a" was added to a full history that held "a" already, and
\* the write went through
C35_Testigo ==
    /\ gestor.llamada = "agregar"
    /\ gestor.termino = <<" ", "a">>
    /\ gestor.devuelve
    /\ Len(gestor.historial) = MAX_BUSQUEDAS
    /\ <<"a">> \in Rango(gestor.historial)
    /\ Len(gestor.orden) = MAX_BUSQUEDAS
    /\ gestor.orden[Len(gestor.orden)] = <<"a">>

\* C36: whenever a query is executed, by the debounce timer or by Enter, the
\* mode applied is the classification of the text in the input: a name
\* search is started only for a name text, an extension search only for an
\* extension text and a content search only for a content text, also for a
\* text typed while a unit was being indexed or a content search ran.
C36_ModoDelTexto ==
    [][/\ (ui.pc = "idle" /\ ui'.pc = "leer_nombre")
            => ClaseEsperada(search_input.text) = BUSQUEDA_NOMBRE
       /\ (ui.pc = "idle" /\ ui'.pc = "leer_extension")
            => ClaseEsperada(search_input.text) = BUSQUEDA_EXTENSION
       /\ (~buscando_contenido /\ buscando_contenido')
            => ClaseEsperada(search_input.text) = BUSQUEDA_CONTENIDO]_vars

\* C37: the displayed result set holds only records of the shared collection
\* as it stands, all of the selected volume: what a content search found
\* before the volume was changed or removed is never displayed afterwards.
C37_ResultadosVigentes ==
    \A r \in Rango(resultados) :
        /\ r \in Rango(todos_los_archivos)
        /\ r.ruta.unidad = unidad_seleccionada

\* C38: while a unit is being indexed no query is executed or displayed: a
\* step that leaves indexando True starts no look-up and leaves the list
\* widget as it was, or showing the message of the indexing or the initial
\* message; that holds also for the browse display scheduled by a change to
\* an empty text just before the indexing started.
C38_SinConsultaIndexando ==
    [][indexando' =>
          /\ ui'.pc \notin {"leer_nombre", "leer_extension"}
          /\ ~(buscando_contenido' /\ ~buscando_contenido)
          /\ \/ results_list' = results_list
             \/ results_list'.modo \in {"indexando", "inicial"}]_vars

\* C39: activating a row opens the path of the record shown in that row, also
\* when the result set holds several files of the same name in different
\* directories; a row of the header, or of the message of an empty result,
\* opens nothing.
C39_AbreLaFilaActivada ==
    llamada.pc = "abierto" =>
        LET n == Len(FilasDeCabecera)
            k == llamada.fila
        IN  IF k > n /\ llamada.archivos # <<>>
            THEN llamada.abierto = << llamada.archivos[k - n].ruta >>
            ELSE llamada.abierto = <<>>

=============================================================================
